---- MODULE Spec2Model ----
(***************************************************************************)
(* Model of the PCA9685 driver (src/inc/pca9685.hpp, src/src/pca9685.ipp). *)
(*                                                                         *)
(* The driver is a single-owner, synchronous object: every public method   *)
(* runs to completion before the next one starts.  Each public method is   *)
(* one action.  The I2C transport and the chip behind it are the           *)
(* environment: the chip is a register file updated by every successful    *)
(* Write, and the outcome (true / false) of each successive transport call *)
(* made during one method call is drawn from a bounded set of outcome      *)
(* plans.  The transport calls a method makes are recorded, in order, in   *)
(* the observation variable call.                                          *)
(***************************************************************************)
EXTENDS Integers, Sequences, FiniteSets, TLC

VARIABLES
  i2c_,          \* "bus" or "null": the transport pointer given at construction
  initialized_,  \* bool initialized_
  last_error_,   \* Error last_error_ (numeric value of the enumerator)
  error_flags_,  \* uint16_t error_flags_
  retries_,      \* int retries_
  retry_delay_,  \* TRUE iff a retry-delay callback is installed
  regs,          \* the chip's registers that differ from zero or were written
  bus_ready,     \* history: the transport's readiness check has returned true
  running,       \* the method calls that threads without a lock are inside of
  call           \* what the most recent step did (observation only)

vars ==
  <<i2c_, initialized_, last_error_, error_flags_, retries_, retry_delay_, regs, bus_ready,
    running, call>>

----------------------------------------------------------------------------
(* Bounds of the model. *)

\* SetRetries is called with -1 .. MaxRetries.
MaxRetries == 2
\* An outcome plan fixes the results of the first MaxPrefix transport calls
\* of a method call one by one, and one result for all the later ones.
MaxPrefix == 3

----------------------------------------------------------------------------
(* Program constants. *)

None == 0
I2cWrite == 1
I2cRead == 2
InvalidParam == 4
DeviceNotFound == 8
NotInitialized == 16
OutOfRange == 32

MODE1 == 0
MODE2 == 1
LED0_ON_L == 6
ALL_LED_ON_L == 250
PRE_SCALE == 254

MAX_CHANNELS_ == 16
MAX_PWM_ == 4095
OSC_FREQ_ == 25000000
DefaultRetries == 3
MinFreq == 24
MaxFreq == 1526

----------------------------------------------------------------------------
(* Fixed-width integer helpers (uint8_t / uint16_t arithmetic of the code). *)

RECURSIVE BitAnd(_, _)
BitAnd(a, b) ==
  IF a = 0 \/ b = 0 THEN 0
  ELSE (a % 2) * (b % 2) + 2 * BitAnd(a \div 2, b \div 2)

BitOr(a, b) == a + b - BitAnd(a, b)

\* static_cast<uint8_t>(x) of a non-negative x
U8(x) == x % 256

\* static_cast<uint8_t>(~mask) for a mask in 0..255
Not8(mask) == 255 - mask

\* ~mask for a uint16_t mask, as applied to the uint16_t flag word
Not16(mask) == 65535 - mask

----------------------------------------------------------------------------
(* The transport and the chip. *)

\* Result of the i-th transport call of a method call under outcome plan orc.
Outcome(orc, i) == IF i <= Len(orc.prefix) THEN orc.prefix[i] ELSE orc.tail

\* Every outcome plan within the bound.
Oracles ==
  { [prefix |-> p, tail |-> t] :
      p \in UNION { [1..n -> BOOLEAN] : n \in 0..MaxPrefix }, t \in BOOLEAN }

\* A transport that never fails, and one that works for the first k calls of
\* a method call and fails from then on.
AllOk == [prefix |-> <<>>, tail |-> TRUE]
FailFirst == [prefix |-> <<FALSE>>, tail |-> TRUE]
FailFrom(k) == [prefix |-> [i \in 1..k |-> TRUE], tail |-> FALSE]
StepFaults == {AllOk} \cup { FailFrom(k) : k \in 0..MaxPrefix }

\* The chip registers the driver reads back; the model keeps the content of
\* these.  Writes to the other registers (the LED blocks) appear in call.log.
Tracked == {MODE1, MODE2, PRE_SCALE}

\* Content of chip register reg.
RegVal(rf, reg) == IF reg \in DOMAIN rf THEN rf[reg] ELSE 0

\* The chip after a burst write of the bytes data starting at register reg.
Store(rf, reg, data) ==
  [a \in (DOMAIN rf) \cup ({ U8(reg + i - 1) : i \in 1..Len(data) } \cap Tracked) |->
     IF \E i \in 1..Len(data) : U8(reg + i - 1) = a
       THEN data[CHOOSE i \in 1..Len(data) : U8(reg + i - 1) = a]
       ELSE rf[a]]

Event(k, reg, data, ok, opn) == [k |-> k, reg |-> reg, data |-> data, ok |-> ok, opn |-> opn]

\* i2c_->EnsureInitialized()
BusEnsureInitialized(c, m) ==
  LET ok == Outcome(c.orc, m.n + 1) IN
  [m |-> [m EXCEPT !.n = @ + 1, !.log = Append(@, Event("Ready", -1, <<>>, ok, m.opn))],
   ok |-> ok]

\* i2c_->Write(addr_, reg, data, len)
BusWrite(c, m, reg, data) ==
  LET ok == Outcome(c.orc, m.n + 1) IN
  [m |-> [m EXCEPT !.n = @ + 1,
                   !.log = Append(@, Event("Write", reg, data, ok, m.opn)),
                   !.regs = IF ok THEN Store(@, reg, data) ELSE @],
   ok |-> ok]

\* i2c_->Read(addr_, reg, &value, 1)
BusRead(c, m, reg) ==
  LET ok == Outcome(c.orc, m.n + 1)
      v  == RegVal(m.regs, reg) IN
  [m |-> [m EXCEPT !.n = @ + 1,
                   !.log = Append(@, Event("Read", reg, IF ok THEN <<v>> ELSE <<>>, ok, m.opn))],
   ok |-> ok, val |-> v]

\* retry_delay_()
RetryDelayCall(m) == [m EXCEPT !.log = Append(@, Event("Delay", -1, <<>>, TRUE, m.opn))]

----------------------------------------------------------------------------
(* Error model. *)

\* Mutant of setError: the kind replaces the flag mask.
setErrorOverwrites(m, e) == [m EXCEPT !.last = e, !.flags = e]

setError(m, e) == [m EXCEPT !.last = e, !.flags = BitOr(@, e)]

HasError(flags, e) == BitAnd(flags, e) # 0
HasAnyError(flags) == flags # 0

----------------------------------------------------------------------------
(* Register access layer with retries. *)

\* A register operation returns ok; the driver's last error at that moment
\* is kept with the observation.
Returned(m, kind, reg, ok) ==
  [m EXCEPT !.log = Append(@, Event(kind, reg, <<m.last>>, ok, m.opn))]

\* Mutant of writeAttempts: every failed attempt records I2cWrite.
RECURSIVE writeAttemptsFlagsEachFailure(_, _, _, _, _)
writeAttemptsFlagsEachFailure(c, m, reg, data, attempt) ==
  IF attempt <= c.retries
    THEN LET t == BusWrite(c, m, reg, data) IN
         IF t.ok THEN [m |-> Returned(t.m, "WriteDone", reg, TRUE), ok |-> TRUE]
         ELSE writeAttemptsFlagsEachFailure(c,
                IF attempt < c.retries /\ c.delay
                  THEN RetryDelayCall(setError(t.m, I2cWrite)) ELSE setError(t.m, I2cWrite),
                reg, data, attempt + 1)
    ELSE [m |-> Returned(setError(m, I2cWrite), "WriteDone", reg, FALSE), ok |-> FALSE]

\* Mutant of writeAttempts: the delay callback runs after every failed
\* attempt, the final one included.
RECURSIVE writeAttemptsDelayAfterLast(_, _, _, _, _)
writeAttemptsDelayAfterLast(c, m, reg, data, attempt) ==
  IF attempt <= c.retries
    THEN LET t == BusWrite(c, m, reg, data) IN
         IF t.ok THEN [m |-> Returned(t.m, "WriteDone", reg, TRUE), ok |-> TRUE]
         ELSE writeAttemptsDelayAfterLast(c,
                IF c.delay THEN RetryDelayCall(t.m) ELSE t.m,
                reg, data, attempt + 1)
    ELSE [m |-> Returned(setError(m, I2cWrite), "WriteDone", reg, FALSE), ok |-> FALSE]

\* Mutant of writeAttempts: the loop runs while attempt < retries_, one
\* attempt short of the budget.
RECURSIVE writeAttemptsOneShort(_, _, _, _, _)
writeAttemptsOneShort(c, m, reg, data, attempt) ==
  IF attempt < c.retries
    THEN LET t == BusWrite(c, m, reg, data) IN
         IF t.ok THEN [m |-> Returned(t.m, "WriteDone", reg, TRUE), ok |-> TRUE]
         ELSE writeAttemptsOneShort(c,
                IF attempt < c.retries /\ c.delay THEN RetryDelayCall(t.m) ELSE t.m,
                reg, data, attempt + 1)
    ELSE [m |-> Returned(setError(m, I2cWrite), "WriteDone", reg, FALSE), ok |-> FALSE]

\* Mutant of writeAttempts: one attempt more than retries_ + 1 is made.
RECURSIVE writeAttemptsOneMore(_, _, _, _, _)
writeAttemptsOneMore(c, m, reg, data, attempt) ==
  IF attempt <= c.retries + 1
    THEN LET t == BusWrite(c, m, reg, data) IN
         IF t.ok THEN [m |-> Returned(t.m, "WriteDone", reg, TRUE), ok |-> TRUE]
         ELSE writeAttemptsOneMore(c,
                IF attempt < c.retries + 1 /\ c.delay THEN RetryDelayCall(t.m) ELSE t.m,
                reg, data, attempt + 1)
    ELSE [m |-> Returned(setError(m, I2cWrite), "WriteDone", reg, FALSE), ok |-> FALSE]

RECURSIVE writeAttempts(_, _, _, _, _)
writeAttempts(c, m, reg, data, attempt) ==
  IF attempt <= c.retries
    THEN LET t == BusWrite(c, m, reg, data) IN
         IF t.ok THEN [m |-> Returned(t.m, "WriteDone", reg, TRUE), ok |-> TRUE]
         ELSE writeAttempts(c,
                IF attempt < c.retries /\ c.delay THEN RetryDelayCall(t.m) ELSE t.m,
                reg, data, attempt + 1)
    ELSE [m |-> Returned(setError(m, I2cWrite), "WriteDone", reg, FALSE), ok |-> FALSE]

\* Mutant of readAttempts: an exhausted read records I2cWrite.
RECURSIVE readAttemptsWrongFlag(_, _, _, _)
readAttemptsWrongFlag(c, m, reg, attempt) ==
  IF attempt <= c.retries
    THEN LET t == BusRead(c, m, reg) IN
         IF t.ok THEN [m |-> Returned(t.m, "ReadDone", reg, TRUE), ok |-> TRUE, val |-> t.val]
         ELSE readAttemptsWrongFlag(c,
                IF attempt < c.retries /\ c.delay THEN RetryDelayCall(t.m) ELSE t.m,
                reg, attempt + 1)
    ELSE [m |-> Returned(setError(m, I2cWrite), "ReadDone", reg, FALSE), ok |-> FALSE, val |-> 0]

\* Mutant of readAttempts: the first attempt is made whatever the retry
\* count is.
RECURSIVE readAttemptsAtLeastOnce(_, _, _, _)
readAttemptsAtLeastOnce(c, m, reg, attempt) ==
  IF attempt = 0 \/ attempt <= c.retries
    THEN LET t == BusRead(c, m, reg) IN
         IF t.ok THEN [m |-> Returned(t.m, "ReadDone", reg, TRUE), ok |-> TRUE, val |-> t.val]
         ELSE readAttemptsAtLeastOnce(c,
                IF attempt < c.retries /\ c.delay THEN RetryDelayCall(t.m) ELSE t.m,
                reg, attempt + 1)
    ELSE [m |-> Returned(setError(m, I2cRead), "ReadDone", reg, FALSE), ok |-> FALSE, val |-> 0]

RECURSIVE readAttempts(_, _, _, _)
readAttempts(c, m, reg, attempt) ==
  IF attempt <= c.retries
    THEN LET t == BusRead(c, m, reg) IN
         IF t.ok THEN [m |-> Returned(t.m, "ReadDone", reg, TRUE), ok |-> TRUE, val |-> t.val]
         ELSE readAttempts(c,
                IF attempt < c.retries /\ c.delay THEN RetryDelayCall(t.m) ELSE t.m,
                reg, attempt + 1)
    ELSE [m |-> Returned(setError(m, I2cRead), "ReadDone", reg, FALSE), ok |-> FALSE, val |-> 0]

\* Each call of a register operation gets the next number opn of the method
\* call; the events it logs carry that number.
writeReg(c, m, reg, value) ==
  LET m1 == [m EXCEPT !.opn = @ + 1] IN
  IF c.i2c = "null" THEN [m |-> Returned(m1, "WriteDone", reg, FALSE), ok |-> FALSE]
  ELSE writeAttempts(c, m1, reg, <<value>>, 0)

readReg(c, m, reg) ==
  LET m1 == [m EXCEPT !.opn = @ + 1] IN
  IF c.i2c = "null" THEN [m |-> Returned(m1, "ReadDone", reg, FALSE), ok |-> FALSE, val |-> 0]
  ELSE readAttempts(c, m1, reg, 0)

writeRegBlock(c, m, reg, data) ==
  LET m1 == [m EXCEPT !.opn = @ + 1] IN
  IF c.i2c = "null" THEN [m |-> Returned(m1, "WriteDone", reg, FALSE), ok |-> FALSE]
  ELSE writeAttempts(c, m1, reg, data, 0)

\* Mutant of modifyReg: the failure of the read is not tested before the
\* write, which is then built from the unfilled buffer.
modifyRegIgnoresReadFailure(c, m, reg, mask, value) ==
  LET r == readReg(c, m, reg)
      new_val == BitOr(BitAnd(r.val, Not8(mask)), BitAnd(value, mask))
      w == writeReg(c, r.m, reg, new_val) IN
  IF ~r.ok \/ ~w.ok THEN [m |-> w.m, ok |-> FALSE]
  ELSE [m |-> [w.m EXCEPT !.last = None], ok |-> TRUE]

\* Mutant of modifyReg: the bits outside the mask are written as 0.
modifyRegDropsOtherBits(c, m, reg, mask, value) ==
  LET r == readReg(c, m, reg) IN
  IF ~r.ok THEN [m |-> r.m, ok |-> FALSE]
  ELSE LET w == writeReg(c, r.m, reg, BitAnd(value, mask)) IN
       IF ~w.ok THEN [m |-> w.m, ok |-> FALSE]
       ELSE [m |-> [w.m EXCEPT !.last = None], ok |-> TRUE]

modifyReg(c, m, reg, mask, value) ==
  LET r == readReg(c, m, reg) IN
  IF ~r.ok THEN [m |-> r.m, ok |-> FALSE]
  ELSE LET new_val == BitOr(BitAnd(r.val, Not8(mask)), BitAnd(value, mask))
           w == writeReg(c, r.m, reg, new_val) IN
       IF ~w.ok THEN [m |-> w.m, ok |-> FALSE]
       ELSE [m |-> [w.m EXCEPT !.last = None], ok |-> TRUE]

----------------------------------------------------------------------------
(* Pure conversions. *)

\* Mutant of calcPrescale: the value is truncated and not clamped.
calcPrescaleTruncates(freq_hz) ==
  LET den == 4096 * freq_hz
      num == OSC_FREQ_ - den
  IN U8(num \div den)

\* Mutant of calcPrescale: the clamped value is rounded down.
calcPrescaleFloors(freq_hz) ==
  LET den  == 4096 * freq_hz
      num  == OSC_FREQ_ - den
      lo   == IF num < 3 * den THEN 3 * den ELSE num
      hi   == IF lo > 255 * den THEN 255 * den ELSE lo
  IN U8(hi \div den)

\* calcPrescale for a frequency of freq_hz Hz (an integer): the real value
\* OSC_FREQ_ / (4096 * freq_hz) - 1 is kept as the fraction num / den, clamped
\* to [3, 255] and then rounded half away from zero (lroundf).
calcPrescale(freq_hz) ==
  LET den  == 4096 * freq_hz
      num  == OSC_FREQ_ - den
      lo   == IF num < 3 * den THEN 3 * den ELSE num
      hi   == IF lo > 255 * den THEN 255 * den ELSE lo
  IN U8((2 * hi + den) \div (2 * den))

\* Mutant of PwmBytes: the high bytes keep three bits.
PwmBytesHighMask7(on_time, off_time) ==
  << U8(BitAnd(on_time, 255)), U8(BitAnd(on_time \div 256, 7)),
     U8(BitAnd(off_time, 255)), U8(BitAnd(off_time \div 256, 7)) >>

\* The four data bytes SetPwm / SetAllPwm build from on_time and off_time.
PwmBytes(on_time, off_time) ==
  << U8(BitAnd(on_time, 255)), U8(BitAnd(on_time \div 256, 15)),
     U8(BitAnd(off_time, 255)), U8(BitAnd(off_time \div 256, 15)) >>

\* Denominator of the duty values of the model: duty = q / DutyDen.
DutyDen == 4

\* Mutant of DutyOffTime: the duty is not clamped.
DutyOffTimeNoClamp(q) == (2 * q * MAX_PWM_ + DutyDen) \div (2 * DutyDen)

\* static_cast<uint16_t>(lroundf(clamp(duty, 0, 1) * MAX_PWM_)) for duty = q / DutyDen
DutyOffTime(q) ==
  LET lo == IF q < 0 THEN 0 ELSE q
      hi == IF lo > DutyDen THEN DutyDen ELSE lo
  IN (2 * hi * MAX_PWM_ + DutyDen) \div (2 * DutyDen)

----------------------------------------------------------------------------
(* Public methods, as functions from the driver and chip before the call   *)
(* (m) and the call's context (c: transport pointer, retry configuration,  *)
(* outcome plan) to the driver and chip after it and the returned value.   *)

Ret(m, ok) == [m |-> m, ok |-> ok]

\* Mutant of ResetOp: the MODE1 write is made without the readiness check.
ResetOpNoReadyCheck(c, m) ==
  IF c.i2c = "null"
    THEN [m |-> [setError(m, I2cWrite) EXCEPT !.init = FALSE], ok |-> FALSE]
    ELSE LET w == writeReg(c, m, MODE1, 0) IN
         IF ~w.ok THEN [m |-> [w.m EXCEPT !.init = FALSE], ok |-> FALSE]
         ELSE [m |-> [w.m EXCEPT !.init = TRUE, !.last = None], ok |-> TRUE]

\* Mutant of ResetOp: a successful reset leaves the last error as it was.
ResetOpKeepsLastError(c, m) ==
  LET rdy == IF c.i2c = "null" THEN [m |-> m, ok |-> FALSE] ELSE BusEnsureInitialized(c, m) IN
  IF ~rdy.ok
    THEN [m |-> [setError(rdy.m, I2cWrite) EXCEPT !.init = FALSE], ok |-> FALSE]
    ELSE LET w == writeReg(c, rdy.m, MODE1, 0) IN
         IF ~w.ok THEN [m |-> [w.m EXCEPT !.init = FALSE], ok |-> FALSE]
         ELSE [m |-> [w.m EXCEPT !.init = TRUE], ok |-> TRUE]

\* Mutant of ResetOp: a successful reset also clears the flag mask.
ResetOpClearsFlags(c, m) ==
  LET rdy == IF c.i2c = "null" THEN [m |-> m, ok |-> FALSE] ELSE BusEnsureInitialized(c, m) IN
  IF ~rdy.ok
    THEN [m |-> [setError(rdy.m, I2cWrite) EXCEPT !.init = FALSE], ok |-> FALSE]
    ELSE LET w == writeReg(c, rdy.m, MODE1, 0) IN
         IF ~w.ok THEN [m |-> [w.m EXCEPT !.init = FALSE], ok |-> FALSE]
         ELSE [m |-> [w.m EXCEPT !.init = TRUE, !.last = None, !.flags = 0], ok |-> TRUE]

\* Mutant of ResetOp: the readiness check is called without the test of
\* the transport pointer.
ResetOpNoNullCheck(c, m) ==
  LET rdy == BusEnsureInitialized(c, m) IN
  IF ~rdy.ok
    THEN Ret([setError(rdy.m, I2cWrite) EXCEPT !.init = FALSE], FALSE)
    ELSE LET w == writeReg(c, rdy.m, MODE1, 0) IN
         IF ~w.ok THEN Ret([w.m EXCEPT !.init = FALSE], FALSE)
         ELSE Ret([w.m EXCEPT !.init = TRUE, !.last = None], TRUE)

\* Mutant of ResetOp: a failed readiness check records no error.
ResetOpSilentReadyFailure(c, m) ==
  LET rdy == IF c.i2c = "null" THEN Ret(m, FALSE) ELSE BusEnsureInitialized(c, m) IN
  IF ~rdy.ok
    THEN Ret([rdy.m EXCEPT !.init = FALSE], FALSE)
    ELSE LET w == writeReg(c, rdy.m, MODE1, 0) IN
         IF ~w.ok THEN Ret([w.m EXCEPT !.init = FALSE], FALSE)
         ELSE Ret([w.m EXCEPT !.init = TRUE, !.last = None], TRUE)

\* Mutant of ResetOp: a failed readiness check is recorded as
\* DeviceNotFound.
ResetOpDeviceNotFound(c, m) ==
  LET rdy == IF c.i2c = "null" THEN Ret(m, FALSE) ELSE BusEnsureInitialized(c, m) IN
  IF ~rdy.ok
    THEN Ret([setError(rdy.m, DeviceNotFound) EXCEPT !.init = FALSE], FALSE)
    ELSE LET w == writeReg(c, rdy.m, MODE1, 0) IN
         IF ~w.ok THEN Ret([w.m EXCEPT !.init = FALSE], FALSE)
         ELSE Ret([w.m EXCEPT !.init = TRUE, !.last = None], TRUE)

ResetOp(c, m) ==
  LET rdy == IF c.i2c = "null" THEN Ret(m, FALSE) ELSE BusEnsureInitialized(c, m) IN
  IF ~rdy.ok
    THEN Ret([setError(rdy.m, I2cWrite) EXCEPT !.init = FALSE], FALSE)
    ELSE LET w == writeReg(c, rdy.m, MODE1, 0) IN
         IF ~w.ok THEN Ret([w.m EXCEPT !.init = FALSE], FALSE)
         ELSE Ret([w.m EXCEPT !.init = TRUE, !.last = None], TRUE)

\* Mutant of EnsureInitializedOp: no lazy reset, the flag alone decides.
EnsureInitializedOpNoReset(c, m) == Ret(m, m.init)

\* Mutant of EnsureInitializedOp: Reset is run whatever the state.
EnsureInitializedOpAlwaysResets(c, m) == ResetOp(c, m)

EnsureInitializedOp(c, m) == IF m.init THEN Ret(m, TRUE) ELSE ResetOp(c, m)

\* Mutant of SetPwmFreqOp: when the prescaler write fails the original mode
\* byte is written back before the failure is returned.
SetPwmFreqOpRestoresOnFailure(c, m, freq_hz) ==
  LET e == EnsureInitializedOp(c, m) IN
  IF ~e.ok THEN Ret(setError(e.m, NotInitialized), FALSE)
  ELSE IF freq_hz < MinFreq \/ freq_hz > MaxFreq THEN Ret(setError(e.m, OutOfRange), FALSE)
  ELSE
    LET r == readReg(c, e.m, MODE1) IN
    IF ~r.ok THEN Ret(r.m, FALSE)
    ELSE
      LET w1 == writeReg(c, r.m, MODE1, BitOr(BitAnd(r.val, 127), 16)) IN
      IF ~w1.ok THEN Ret(w1.m, FALSE)
      ELSE
        LET w2 == writeReg(c, w1.m, PRE_SCALE, calcPrescale(freq_hz)) IN
        IF ~w2.ok THEN Ret(writeReg(c, w2.m, MODE1, r.val).m, FALSE)
        ELSE
          LET w3 == writeReg(c, w2.m, MODE1, r.val) IN
          IF ~w3.ok THEN Ret(w3.m, FALSE)
          ELSE Ret([w3.m EXCEPT !.last = None], TRUE)

\* Mutant of SetPwmFreqOp: a chip that is asleep is refused.
SetPwmFreqOpRequiresAwake(c, m, freq_hz) ==
  LET e == EnsureInitializedOp(c, m) IN
  IF ~e.ok THEN Ret(setError(e.m, NotInitialized), FALSE)
  ELSE IF freq_hz < MinFreq \/ freq_hz > MaxFreq THEN Ret(setError(e.m, OutOfRange), FALSE)
  ELSE
    LET r == readReg(c, e.m, MODE1) IN
    IF ~r.ok THEN Ret(r.m, FALSE)
    ELSE IF BitAnd(r.val, 16) # 0 THEN Ret(setError(r.m, InvalidParam), FALSE)
    ELSE
      LET w1 == writeReg(c, r.m, MODE1, BitOr(BitAnd(r.val, 127), 16)) IN
      IF ~w1.ok THEN Ret(w1.m, FALSE)
      ELSE
        LET w2 == writeReg(c, w1.m, PRE_SCALE, calcPrescale(freq_hz)) IN
        IF ~w2.ok THEN Ret(w2.m, FALSE)
        ELSE
          LET w3 == writeReg(c, w2.m, MODE1, r.val) IN
          IF ~w3.ok THEN Ret(w3.m, FALSE)
          ELSE Ret([w3.m EXCEPT !.last = None], TRUE)

\* Mutant of SetPwmFreqOp: the sleep byte keeps the RESTART bit of the
\* value read (old_mode | 0x10).
SetPwmFreqOpKeepsRestart(c, m, freq_hz) ==
  LET e == EnsureInitializedOp(c, m) IN
  IF ~e.ok THEN Ret(setError(e.m, NotInitialized), FALSE)
  ELSE IF freq_hz < MinFreq \/ freq_hz > MaxFreq THEN Ret(setError(e.m, OutOfRange), FALSE)
  ELSE
    LET r == readReg(c, e.m, MODE1) IN
    IF ~r.ok THEN Ret(r.m, FALSE)
    ELSE
      LET w1 == writeReg(c, r.m, MODE1, BitOr(r.val, 16)) IN
      IF ~w1.ok THEN Ret(w1.m, FALSE)
      ELSE
        LET w2 == writeReg(c, w1.m, PRE_SCALE, calcPrescale(freq_hz)) IN
        IF ~w2.ok THEN Ret(w2.m, FALSE)
        ELSE
          LET w3 == writeReg(c, w2.m, MODE1, r.val) IN
          IF ~w3.ok THEN Ret(w3.m, FALSE)
          ELSE Ret([w3.m EXCEPT !.last = None], TRUE)

\* Mutant of SetPwmFreqOp: the prescaler is written before the chip is put
\* to sleep.
SetPwmFreqOpPrescaleFirst(c, m, freq_hz) ==
  LET e == EnsureInitializedOp(c, m) IN
  IF ~e.ok THEN Ret(setError(e.m, NotInitialized), FALSE)
  ELSE IF freq_hz < MinFreq \/ freq_hz > MaxFreq THEN Ret(setError(e.m, OutOfRange), FALSE)
  ELSE
    LET r == readReg(c, e.m, MODE1) IN
    IF ~r.ok THEN Ret(r.m, FALSE)
    ELSE
      LET w1 == writeReg(c, r.m, PRE_SCALE, calcPrescale(freq_hz)) IN
      IF ~w1.ok THEN Ret(w1.m, FALSE)
      ELSE
        LET w2 == writeReg(c, w1.m, MODE1, BitOr(BitAnd(r.val, 127), 16)) IN
        IF ~w2.ok THEN Ret(w2.m, FALSE)
        ELSE
          LET w3 == writeReg(c, w2.m, MODE1, r.val) IN
          IF ~w3.ok THEN Ret(w3.m, FALSE)
          ELSE Ret([w3.m EXCEPT !.last = None], TRUE)

\* Mutant of SetPwmFreqOp: the original mode byte is not written back.
SetPwmFreqOpNoRestore(c, m, freq_hz) ==
  LET e == EnsureInitializedOp(c, m) IN
  IF ~e.ok THEN Ret(setError(e.m, NotInitialized), FALSE)
  ELSE IF freq_hz < MinFreq \/ freq_hz > MaxFreq THEN Ret(setError(e.m, OutOfRange), FALSE)
  ELSE
    LET r == readReg(c, e.m, MODE1) IN
    IF ~r.ok THEN Ret(r.m, FALSE)
    ELSE
      LET w1 == writeReg(c, r.m, MODE1, BitOr(BitAnd(r.val, 127), 16)) IN
      IF ~w1.ok THEN Ret(w1.m, FALSE)
      ELSE
        LET w2 == writeReg(c, w1.m, PRE_SCALE, calcPrescale(freq_hz)) IN
        IF ~w2.ok THEN Ret(w2.m, FALSE)
        ELSE Ret([w2.m EXCEPT !.last = None], TRUE)

SetPwmFreqOp(c, m, freq_hz) ==
  LET e == EnsureInitializedOp(c, m) IN
  IF ~e.ok THEN Ret(setError(e.m, NotInitialized), FALSE)
  ELSE IF freq_hz < MinFreq \/ freq_hz > MaxFreq THEN Ret(setError(e.m, OutOfRange), FALSE)
  ELSE
    LET prescale == calcPrescale(freq_hz)
        r == readReg(c, e.m, MODE1) IN
    IF ~r.ok THEN Ret(r.m, FALSE)
    ELSE
      LET old_mode == r.val
          sleep == BitOr(BitAnd(old_mode, 127), 16)
          w1 == writeReg(c, r.m, MODE1, sleep) IN
      IF ~w1.ok THEN Ret(w1.m, FALSE)
      ELSE
        LET w2 == writeReg(c, w1.m, PRE_SCALE, prescale) IN
        IF ~w2.ok THEN Ret(w2.m, FALSE)
        ELSE
          LET w3 == writeReg(c, w2.m, MODE1, old_mode) IN
          IF ~w3.ok THEN Ret(w3.m, FALSE)
          ELSE Ret([w3.m EXCEPT !.last = None], TRUE)

\* Mutant of SetPwmOp: the block address is LED0_ON_L + channel.
SetPwmOpPackedAddress(c, m, channel, on_time, off_time) ==
  LET e == EnsureInitializedOp(c, m) IN
  IF ~e.ok THEN Ret(setError(e.m, NotInitialized), FALSE)
  ELSE IF channel >= MAX_CHANNELS_ \/ on_time > MAX_PWM_ \/ off_time > MAX_PWM_
    THEN Ret(setError(e.m, OutOfRange), FALSE)
  ELSE
    LET reg == U8(LED0_ON_L + channel)
        w == writeRegBlock(c, e.m, reg, PwmBytes(on_time, off_time)) IN
    IF ~w.ok THEN Ret(w.m, FALSE)
    ELSE Ret([w.m EXCEPT !.last = None], TRUE)

\* Mutant of SetPwmOp: the channel test is channel > MAX_CHANNELS_.
SetPwmOpChannelOffByOne(c, m, channel, on_time, off_time) ==
  LET e == EnsureInitializedOp(c, m) IN
  IF ~e.ok THEN Ret(setError(e.m, NotInitialized), FALSE)
  ELSE IF channel > MAX_CHANNELS_ \/ on_time > MAX_PWM_ \/ off_time > MAX_PWM_
    THEN Ret(setError(e.m, OutOfRange), FALSE)
  ELSE
    LET reg == U8(LED0_ON_L + 4 * channel)
        w == writeRegBlock(c, e.m, reg, PwmBytes(on_time, off_time)) IN
    IF ~w.ok THEN Ret(w.m, FALSE)
    ELSE Ret([w.m EXCEPT !.last = None], TRUE)

SetPwmOp(c, m, channel, on_time, off_time) ==
  LET e == EnsureInitializedOp(c, m) IN
  IF ~e.ok THEN Ret(setError(e.m, NotInitialized), FALSE)
  ELSE IF channel >= MAX_CHANNELS_ \/ on_time > MAX_PWM_ \/ off_time > MAX_PWM_
    THEN Ret(setError(e.m, OutOfRange), FALSE)
  ELSE
    LET reg == U8(LED0_ON_L + 4 * channel)
        w == writeRegBlock(c, e.m, reg, PwmBytes(on_time, off_time)) IN
    IF ~w.ok THEN Ret(w.m, FALSE)
    ELSE Ret([w.m EXCEPT !.last = None], TRUE)

SetDutyOp(c, m, channel, q) == SetPwmOp(c, m, channel, 0, DutyOffTime(q))

SetAllPwmOp(c, m, on_time, off_time) ==
  LET e == EnsureInitializedOp(c, m) IN
  IF ~e.ok THEN Ret(setError(e.m, NotInitialized), FALSE)
  ELSE IF on_time > MAX_PWM_ \/ off_time > MAX_PWM_
    THEN Ret(setError(e.m, OutOfRange), FALSE)
  ELSE
    LET w == writeRegBlock(c, e.m, ALL_LED_ON_L, PwmBytes(on_time, off_time)) IN
    IF ~w.ok THEN Ret(w.m, FALSE)
    ELSE Ret([w.m EXCEPT !.last = None], TRUE)

\* Mutant of GetPrescaleOp: an uninitialized driver is refused outright,
\* without the lazy Reset.
GetPrescaleOpRequiresInit(c, m) ==
  IF ~m.init THEN Ret(setError(m, NotInitialized), FALSE)
  ELSE
    LET r == readReg(c, m, PRE_SCALE) IN
    IF ~r.ok THEN Ret(r.m, FALSE)
    ELSE Ret([r.m EXCEPT !.last = None, !.out = <<r.val>>], TRUE)

GetPrescaleOp(c, m) ==
  LET e == EnsureInitializedOp(c, m) IN
  IF ~e.ok THEN Ret(setError(e.m, NotInitialized), FALSE)
  ELSE
    LET r == readReg(c, e.m, PRE_SCALE) IN
    IF ~r.ok THEN Ret(r.m, FALSE)
    ELSE Ret([r.m EXCEPT !.last = None, !.out = <<r.val>>], TRUE)

\* Mutant of SleepOp: MODE1 is overwritten with the sleep bit alone.
SleepOpOverwrites(c, m) ==
  LET e == EnsureInitializedOp(c, m) IN
  IF ~e.ok THEN Ret(setError(e.m, NotInitialized), FALSE)
  ELSE LET w == writeReg(c, e.m, MODE1, 16) IN
       IF ~w.ok THEN Ret(w.m, FALSE) ELSE Ret([w.m EXCEPT !.last = None], TRUE)

\* Mutant of SleepOp: a failed read-modify-write drops the initialization.
SleepOpFailureUninitializes(c, m) ==
  LET e == EnsureInitializedOp(c, m) IN
  IF ~e.ok THEN Ret(setError(e.m, NotInitialized), FALSE)
  ELSE LET r == modifyReg(c, e.m, MODE1, 16, 16) IN
       IF r.ok THEN r ELSE Ret([r.m EXCEPT !.init = FALSE], FALSE)

SleepOp(c, m) ==
  LET e == EnsureInitializedOp(c, m) IN
  IF ~e.ok THEN Ret(setError(e.m, NotInitialized), FALSE)
  ELSE modifyReg(c, e.m, MODE1, 16, 16)

\* Mutant of WakeOp: RESTART is never written again.
WakeOpSingleWrite(c, m) ==
  LET e == EnsureInitializedOp(c, m) IN
  IF ~e.ok THEN Ret(setError(e.m, NotInitialized), FALSE)
  ELSE
    LET r == readReg(c, e.m, MODE1) IN
    IF ~r.ok THEN Ret(r.m, FALSE)
    ELSE
      LET w1 == writeReg(c, r.m, MODE1, BitAnd(r.val, Not8(16))) IN
      IF ~w1.ok THEN Ret(w1.m, FALSE)
      ELSE Ret([w1.m EXCEPT !.last = None], TRUE)

\* Mutant of WakeOp: the first write clears RESTART together with SLEEP and
\* the second write sets it again.
WakeOpClearsRestartFirst(c, m) ==
  LET e == EnsureInitializedOp(c, m) IN
  IF ~e.ok THEN Ret(setError(e.m, NotInitialized), FALSE)
  ELSE
    LET r == readReg(c, e.m, MODE1) IN
    IF ~r.ok THEN Ret(r.m, FALSE)
    ELSE
      LET mode1 == r.val
          new_mode1 == BitAnd(mode1, Not8(144))
          w1 == writeReg(c, r.m, MODE1, new_mode1) IN
      IF ~w1.ok THEN Ret(w1.m, FALSE)
      ELSE IF BitAnd(mode1, 128) # 0
        THEN LET w2 == writeReg(c, w1.m, MODE1, U8(BitOr(new_mode1, 128))) IN
             IF ~w2.ok THEN Ret(w2.m, FALSE)
             ELSE Ret([w2.m EXCEPT !.last = None], TRUE)
        ELSE Ret([w1.m EXCEPT !.last = None], TRUE)

WakeOp(c, m) ==
  LET e == EnsureInitializedOp(c, m) IN
  IF ~e.ok THEN Ret(setError(e.m, NotInitialized), FALSE)
  ELSE
    LET r == readReg(c, e.m, MODE1) IN
    IF ~r.ok THEN Ret(r.m, FALSE)
    ELSE
      LET mode1 == r.val
          new_mode1 == BitAnd(mode1, Not8(16))
          w1 == writeReg(c, r.m, MODE1, new_mode1) IN
      IF ~w1.ok THEN Ret(w1.m, FALSE)
      ELSE IF BitAnd(mode1, 128) # 0
        THEN LET w2 == writeReg(c, w1.m, MODE1, U8(BitOr(new_mode1, 128))) IN
             IF ~w2.ok THEN Ret(w2.m, FALSE)
             ELSE Ret([w2.m EXCEPT !.last = None], TRUE)
        ELSE Ret([w1.m EXCEPT !.last = None], TRUE)

SetOutputInvertOp(c, m, invert) ==
  LET e == EnsureInitializedOp(c, m) IN
  IF ~e.ok THEN Ret(setError(e.m, NotInitialized), FALSE)
  ELSE modifyReg(c, e.m, MODE2, 16, IF invert THEN 16 ELSE 0)

SetOutputDriverModeOp(c, m, totem_pole) ==
  LET e == EnsureInitializedOp(c, m) IN
  IF ~e.ok THEN Ret(setError(e.m, NotInitialized), FALSE)
  ELSE modifyReg(c, e.m, MODE2, 4, IF totem_pole THEN 4 ELSE 0)

SetChannelFullOnOp(c, m, channel) ==
  LET e == EnsureInitializedOp(c, m) IN
  IF ~e.ok THEN Ret(setError(e.m, NotInitialized), FALSE)
  ELSE IF channel >= MAX_CHANNELS_ THEN Ret(setError(e.m, OutOfRange), FALSE)
  ELSE
    LET reg == U8(LED0_ON_L + 4 * channel)
        w == writeRegBlock(c, e.m, reg, <<0, 16, 0, 0>>) IN
    IF ~w.ok THEN Ret(w.m, FALSE)
    ELSE Ret([w.m EXCEPT !.last = None], TRUE)

\* Mutant of SetChannelFullOffOp: the full-on flag is left set as well.
SetChannelFullOffOpBothFlags(c, m, channel) ==
  LET e == EnsureInitializedOp(c, m) IN
  IF ~e.ok THEN Ret(setError(e.m, NotInitialized), FALSE)
  ELSE IF channel >= MAX_CHANNELS_ THEN Ret(setError(e.m, OutOfRange), FALSE)
  ELSE
    LET reg == U8(LED0_ON_L + 4 * channel)
        w == writeRegBlock(c, e.m, reg, <<0, 16, 0, 16>>) IN
    IF ~w.ok THEN Ret(w.m, FALSE)
    ELSE Ret([w.m EXCEPT !.last = None], TRUE)

SetChannelFullOffOp(c, m, channel) ==
  LET e == EnsureInitializedOp(c, m) IN
  IF ~e.ok THEN Ret(setError(e.m, NotInitialized), FALSE)
  ELSE IF channel >= MAX_CHANNELS_ THEN Ret(setError(e.m, OutOfRange), FALSE)
  ELSE
    LET reg == U8(LED0_ON_L + 4 * channel)
        w == writeRegBlock(c, e.m, reg, <<0, 0, 0, 16>>) IN
    IF ~w.ok THEN Ret(w.m, FALSE)
    ELSE Ret([w.m EXCEPT !.last = None], TRUE)

----------------------------------------------------------------------------
(* State machine.  A method call is one step: it takes the driver and the  *)
(* chip from their state before the call to their state after it and       *)
(* leaves its observation in call.  The caller then takes the result       *)
(* (Return) before it makes the next call.                                 *)

Ctx(orc) == [i2c |-> i2c_, retries |-> retries_, delay |-> retry_delay_, orc |-> orc]

Before ==
  [init |-> initialized_, last |-> last_error_, flags |-> error_flags_, regs |-> regs,
   log |-> <<>>, n |-> 0, opn |-> 0, out |-> <<>>]

Observed(op, args, orc, ret, log, out) ==
  [op |-> op, args |-> args, orc |-> orc, ret |-> ret, log |-> log, out |-> out,
   wasInit |-> initialized_]

NoCall ==
  [op |-> "none", args |-> <<>>, orc |-> AllOk, ret |-> TRUE, log |-> <<>>, out |-> <<>>,
   wasInit |-> FALSE]

Idle == call.op = "none"

\* The driver and the chip take the values the method call left.
Commit(op, args, orc, r) ==
  /\ Idle
  /\ initialized_' = r.m.init
  /\ last_error_' = r.m.last
  /\ error_flags_' = r.m.flags
  /\ regs' = r.m.regs
  /\ bus_ready' = (bus_ready \/ \E i \in 1..Len(r.m.log) : r.m.log[i].k = "Ready" /\ r.m.log[i].ok)
  /\ call' = Observed(op, args, orc, r.ok, r.m.log, r.m.out)
  /\ UNCHANGED <<i2c_, retries_, retry_delay_, running>>

\* The threads of a caller that does not serialize its calls.
Threads == {1, 2}

\* A thread outside the driver, and all threads outside of it.
IdleThread ==
  [pc |-> "idle", op |-> "none", args |-> <<>>, val |-> 0, overlap |-> FALSE, ret |-> FALSE]
NoThreads == [t \in Threads |-> IdleThread]

InitDriver ==
  /\ initialized_ = FALSE
  /\ running = NoThreads
  /\ last_error_ = None
  /\ error_flags_ = 0
  /\ retries_ = DefaultRetries
  /\ retry_delay_ = FALSE
  /\ bus_ready = FALSE
  /\ call = NoCall

\* The chip at power-on: MODE1 = 0x11, MODE2 = 0x04, PRE_SCALE = 0x1E.
InitChip == regs = (MODE1 :> 17) @@ (MODE2 :> 4) @@ (PRE_SCALE :> 30)

Init == i2c_ \in {"bus", "null"} /\ InitDriver /\ InitChip

Reset(orc) == Commit("Reset", <<>>, orc, ResetOp(Ctx(orc), Before))

EnsureInitialized(orc) ==
  Commit("EnsureInitialized", <<>>, orc, EnsureInitializedOp(Ctx(orc), Before))

SetPwmFreq(orc, f) == Commit("SetPwmFreq", <<f>>, orc, SetPwmFreqOp(Ctx(orc), Before, f))

SetPwm(orc, a) == Commit("SetPwm", a, orc, SetPwmOp(Ctx(orc), Before, a[1], a[2], a[3]))

SetDuty(orc, a) == Commit("SetDuty", a, orc, SetDutyOp(Ctx(orc), Before, a[1], a[2]))

\* SetDuty(channel, NaN): std::max and std::min return the NaN they are
\* given, and the result of lroundf(NaN) is unspecified, so the off_time that
\* static_cast<uint16_t> hands to SetPwm is any value the build produces.
SetDutyNaN(orc, ch, off_time) ==
  Commit("SetDutyNaN", <<ch>>, orc, SetPwmOp(Ctx(orc), Before, ch, 0, off_time))

SetAllPwm(orc, a) == Commit("SetAllPwm", a, orc, SetAllPwmOp(Ctx(orc), Before, a[1], a[2]))

GetPrescale(orc) == Commit("GetPrescale", <<>>, orc, GetPrescaleOp(Ctx(orc), Before))

Sleep(orc) == Commit("Sleep", <<>>, orc, SleepOp(Ctx(orc), Before))

Wake(orc) == Commit("Wake", <<>>, orc, WakeOp(Ctx(orc), Before))

SetOutputInvert(orc, b) ==
  Commit("SetOutputInvert", <<b>>, orc, SetOutputInvertOp(Ctx(orc), Before, b))

SetOutputDriverMode(orc, b) ==
  Commit("SetOutputDriverMode", <<b>>, orc, SetOutputDriverModeOp(Ctx(orc), Before, b))

SetChannelFullOn(orc, ch) ==
  Commit("SetChannelFullOn", <<ch>>, orc, SetChannelFullOnOp(Ctx(orc), Before, ch))

SetChannelFullOff(orc, ch) ==
  Commit("SetChannelFullOff", <<ch>>, orc, SetChannelFullOffOp(Ctx(orc), Before, ch))

ClearError(e) ==
  /\ Idle
  /\ error_flags_' = BitAnd(error_flags_, Not16(e))
  /\ call' = Observed("ClearError", <<e>>, AllOk, TRUE, <<>>, <<>>)
  /\ UNCHANGED <<i2c_, initialized_, last_error_, retries_, retry_delay_, regs, bus_ready, running>>

\* Mutant of ClearErrorFlags: the last error is reset with the flags.
ClearErrorFlagsResetsLast(mask) ==
  /\ Idle
  /\ error_flags_' = BitAnd(error_flags_, Not16(mask))
  /\ last_error_' = None
  /\ call' = Observed("ClearErrorFlags", <<mask>>, AllOk, TRUE, <<>>, <<>>)
  /\ UNCHANGED <<i2c_, initialized_, retries_, retry_delay_, regs, bus_ready, running>>

ClearErrorFlags(mask) ==
  /\ Idle
  /\ error_flags_' = BitAnd(error_flags_, Not16(mask))
  /\ call' = Observed("ClearErrorFlags", <<mask>>, AllOk, TRUE, <<>>, <<>>)
  /\ UNCHANGED <<i2c_, initialized_, last_error_, retries_, retry_delay_, regs, bus_ready, running>>

SetRetries(n) ==
  /\ Idle
  /\ retries_' = n
  /\ call' = Observed("SetRetries", <<n>>, AllOk, TRUE, <<>>, <<>>)
  /\ UNCHANGED <<i2c_, initialized_, last_error_, error_flags_, retry_delay_, regs, bus_ready, running>>

SetRetryDelay(fn) ==
  /\ Idle
  /\ retry_delay_' = fn
  /\ call' = Observed("SetRetryDelay", <<fn>>, AllOk, TRUE, <<>>, <<>>)
  /\ UNCHANGED <<i2c_, initialized_, last_error_, error_flags_, retries_, regs, bus_ready, running>>

\* The chip changes MODE1 by itself (the hardware sets RESTART; AI and
\* ALLCALL are configuration an earlier session left).
ChipSetsMode1(v) ==
  /\ Idle
  /\ regs' = Store(regs, MODE1, <<v>>)
  /\ call' = Observed("chip", <<v>>, AllOk, TRUE, <<>>, <<>>)
  /\ UNCHANGED <<i2c_, initialized_, last_error_, error_flags_, retries_, retry_delay_, bus_ready, running>>

\* The chip holds a MODE2 an earlier session configured (OUTNE, OCH, OUTDRV,
\* INVRT); Reset does not write MODE2.
ChipSetsMode2(v) ==
  /\ Idle
  /\ regs' = Store(regs, MODE2, <<v>>)
  /\ call' = Observed("chip", <<v>>, AllOk, TRUE, <<>>, <<>>)
  /\ UNCHANGED <<i2c_, initialized_, last_error_, error_flags_, retries_, retry_delay_, bus_ready, running>>

(* Calls that are not serialized.  The driver has no lock: a thread inside  *)
(* a method is between two of its transport calls, and another thread may  *)
(* run in between.  The methods modelled at this grain are the ones that   *)
(* read a mode register and write it back, on an initialized driver with a *)
(* transport that works.                                                   *)

\* Thread t is inside a method.
MidCall(t) == running[t].pc \notin {"idle", "done"}

\* The register, mask and value a method hands to modifyReg.
RmwReg(op) == IF op = "Sleep" THEN MODE1 ELSE MODE2
RmwMask(op) == IF op = "SetOutputDriverMode" THEN 4 ELSE 16
RmwValue(op, args) ==
  IF op = "Sleep" THEN 16
  ELSE IF op = "SetOutputInvert" THEN (IF args[1] THEN 16 ELSE 0)
  ELSE (IF args[1] THEN 4 ELSE 0)

\* Mutant of RmwByte: the bits outside the mask are written as 0.
RmwByteDropsOtherBits(op, args, current) == BitAnd(RmwValue(op, args), RmwMask(op))

\* new_val = (current & ~mask) | (value & mask)
RmwByte(op, args, current) ==
  BitOr(BitAnd(current, Not8(RmwMask(op))), BitAnd(RmwValue(op, args), RmwMask(op)))

\* Thread t enters the method: EnsureInitialized() returns true on the
\* initialized driver and the argument is in range.  It overlaps every call
\* another thread is inside of.
ThreadBegin(t, op, args) ==
  /\ Idle /\ initialized_ /\ i2c_ = "bus" /\ retries_ >= 0
  /\ running[t].pc = "idle"
  /\ running' =
       [s \in Threads |->
          IF s = t
            THEN [pc |-> "read", op |-> op, args |-> args, val |-> 0,
                  overlap |-> \E u \in Threads \ {t} : MidCall(u), ret |-> FALSE]
          ELSE IF MidCall(s) THEN [running[s] EXCEPT !.overlap = TRUE]
          ELSE running[s]]
  /\ UNCHANGED <<i2c_, initialized_, last_error_, error_flags_, retries_, retry_delay_, regs,
                 bus_ready, call>>

\* Thread t's readReg of the mode register: SetPwmFreq reads MODE1 into
\* old_mode, modifyReg reads its register into current.
ThreadRead(t) ==
  LET th == running[t]
      reg == IF th.op = "SetPwmFreq" THEN MODE1 ELSE RmwReg(th.op)
  IN
  /\ th.pc = "read"
  /\ running' = [running EXCEPT ![t].val = BusRead(Ctx(AllOk), Before, reg).val,
                                ![t].pc = IF th.op = "SetPwmFreq" THEN "sleep" ELSE "write"]
  /\ UNCHANGED <<i2c_, initialized_, last_error_, error_flags_, retries_, retry_delay_, regs,
                 bus_ready, call>>

\* Thread t's next writeReg: the write of modifyReg, or SetPwmFreq's sleep
\* byte, prescaler and restored mode byte in turn.  After the last write the
\* method stores Error::None and returns true.
ThreadWrite(t) ==
  LET th == running[t]
      reg == IF th.pc = "write" THEN RmwReg(th.op)
             ELSE IF th.pc = "prescale" THEN PRE_SCALE ELSE MODE1
      byte == IF th.pc = "write" THEN RmwByte(th.op, th.args, th.val)
              ELSE IF th.pc = "sleep" THEN BitOr(BitAnd(th.val, 127), 16)
              ELSE IF th.pc = "prescale" THEN calcPrescale(th.args[1])
              ELSE th.val
      next == IF th.pc = "sleep" THEN "prescale"
              ELSE IF th.pc = "prescale" THEN "restore" ELSE "done"
  IN
  /\ th.pc \in {"write", "sleep", "prescale", "restore"}
  /\ regs' = BusWrite(Ctx(AllOk), Before, reg, <<byte>>).m.regs
  /\ running' = [running EXCEPT ![t].pc = next, ![t].ret = (next = "done")]
  /\ last_error_' = IF next = "done" THEN None ELSE last_error_
  /\ UNCHANGED <<i2c_, initialized_, error_flags_, retries_, retry_delay_, bus_ready, call>>

\* The caller has the results of all its threads.
ThreadsJoin ==
  /\ \A t \in Threads : ~MidCall(t)
  /\ \E t \in Threads : running[t].pc = "done"
  /\ running' = NoThreads
  /\ UNCHANGED <<i2c_, initialized_, last_error_, error_flags_, retries_, retry_delay_, regs,
                 bus_ready, call>>

\* The caller has taken the result of the call.
Return ==
  /\ ~Idle
  /\ call' = NoCall
  /\ UNCHANGED <<i2c_, initialized_, last_error_, error_flags_, retries_, retry_delay_, regs, bus_ready, running>>

----------------------------------------------------------------------------
(* Inputs of the model. *)

FreqVals == {23, 24, 1526, 1527}
PwmArgs == { <<0, 0, 2048>>, <<15, 4095, 4095>>, <<16, 0, 0>>, <<255, 0, 2048>>,
             <<0, 5000, 0>>, <<0, 0, 5000>> }
AllPwmArgs == { <<4095, 4095>>, <<5000, 0>>, <<0, 5000>> }
ChanVals == {15, 16}
DutyArgs == { <<0, -2>>, <<15, 2>>, <<16, 6>> }
RetryVals == -1 .. MaxRetries
ErrorKinds == {I2cWrite, I2cRead, InvalidParam, DeviceNotFound, NotInitialized, OutOfRange}
Mode1Vals == {161}
MaskVals == {65535, 33}
PowerMode1Vals == {161, 177}
TickVals == {0, 1, 255, 256, 2748, 4095}
FixedTicks == {1365, 2730}
TickPairs ==
  (TickVals \X TickVals) \cup ((0..MAX_PWM_) \X FixedTicks) \cup (FixedTicks \X (0..MAX_PWM_))
DutyVals == (-2) .. (DutyDen + 2)
PwmDutyArgs == { <<ch, q>> : ch \in 0..MAX_CHANNELS_, q \in DutyVals }
NanOffTimes == {0, 65535}
Mode2Vals == {0, 11, 31}
PwmBlockArgs ==
  { <<ch, on, off>> : ch \in 0..(MAX_CHANNELS_ - 1), on \in TickVals, off \in TickVals }
    \cup { <<15, t[1], t[2]>> : t \in TickPairs }

----------------------------------------------------------------------------
(* The driver facade: every public method, in any order, over a transport  *)
(* that works or stops working at some call.                               *)

Next ==
  \/ \E orc \in StepFaults : Reset(orc)
  \/ \E orc \in StepFaults : EnsureInitialized(orc)
  \/ \E orc \in StepFaults, f \in FreqVals : SetPwmFreq(orc, f)
  \/ \E orc \in StepFaults, a \in PwmArgs : SetPwm(orc, a)
  \/ \E orc \in StepFaults, a \in DutyArgs : SetDuty(orc, a)
  \/ \E orc \in StepFaults, a \in AllPwmArgs : SetAllPwm(orc, a)
  \/ \E orc \in StepFaults : GetPrescale(orc)
  \/ \E orc \in StepFaults : Sleep(orc)
  \/ \E orc \in StepFaults : Wake(orc)
  \/ \E orc \in StepFaults, b \in BOOLEAN : SetOutputInvert(orc, b)
  \/ \E orc \in StepFaults, b \in BOOLEAN : SetOutputDriverMode(orc, b)
  \/ \E orc \in StepFaults, ch \in ChanVals : SetChannelFullOn(orc, ch)
  \/ \E orc \in StepFaults, ch \in ChanVals : SetChannelFullOff(orc, ch)
  \/ \E e \in ErrorKinds : ClearError(e)
  \/ \E mask \in MaskVals : ClearErrorFlags(mask)
  \/ Return

Spec == Init /\ [][Next]_vars

----------------------------------------------------------------------------
(* The register access layer: the retry configuration is changed at will   *)
(* and the transport follows every outcome plan within the bound.  One     *)
(* method per register operation: writeReg (Reset), readReg (GetPrescale), *)
(* writeRegBlock (SetPwm), and modifyReg (Sleep), which does two.          *)

NextRetry ==
  \/ \E n \in RetryVals : SetRetries(n)
  \/ \E fn \in BOOLEAN : SetRetryDelay(fn)
  \/ \E orc \in Oracles : Reset(orc)
  \/ \E orc \in Oracles : GetPrescale(orc)
  \/ \E orc \in Oracles : SetPwm(orc, <<15, 4095, 4095>>)
  \/ \E orc \in Oracles : Sleep(orc)
  \/ Return

SpecRetry == Init /\ [][NextRetry]_vars

----------------------------------------------------------------------------
(* The frequency protocol: SetPwmFreq and GetPrescale on a chip awake or   *)
(* asleep, with or without RESTART, under every outcome plan within the    *)
(* bound.                                                                  *)

NextFreq ==
  \/ \E orc \in StepFaults : Reset(orc)
  \/ \E orc \in Oracles, f \in FreqVals : SetPwmFreq(orc, f)
  \/ \E orc \in StepFaults : GetPrescale(orc)
  \/ \E orc \in StepFaults : Sleep(orc)
  \/ \E v \in Mode1Vals : ChipSetsMode1(v)
  \/ \E n \in {0, 1} : SetRetries(n)
  \/ Return

SpecFreq == Init /\ [][NextFreq]_vars

----------------------------------------------------------------------------
(* Power management: Sleep and Wake on a chip whose MODE1 has RESTART, AI   *)
(* and ALLCALL set or clear, under every outcome plan within the bound.     *)

NextPower ==
  \/ \E orc \in StepFaults : Reset(orc)
  \/ \E orc \in Oracles : Sleep(orc)
  \/ \E orc \in Oracles : Wake(orc)
  \/ \E v \in PowerMode1Vals : ChipSetsMode1(v)
  \/ Return

SpecPower == Init /\ [][NextPower]_vars

----------------------------------------------------------------------------
(* The PWM block encoding: SetPwm on every channel and SetPwm / SetAllPwm   *)
(* over the whole tick range of one argument at a time.                     *)

NextPwm ==
  \/ Idle /\ \E orc \in {AllOk, FailFirst}, a \in PwmBlockArgs : SetPwm(orc, a)
  \/ Idle /\ \E orc \in {AllOk, FailFirst}, a \in TickPairs : SetAllPwm(orc, a)
  \/ Return

SpecPwm == Init /\ [][NextPwm]_vars

----------------------------------------------------------------------------
(* Channel control: SetDuty (NaN included), full-on and full-off on every   *)
(* channel, and SetPwm on every channel with edge ticks.                    *)

NextChan ==
  \/ \E orc \in {AllOk, FailFirst}, a \in PwmDutyArgs : SetDuty(orc, a)
  \/ \E orc \in {AllOk, FailFirst}, ch \in {0, 15}, t \in NanOffTimes : SetDutyNaN(orc, ch, t)
  \/ \E orc \in {AllOk, FailFirst}, ch \in 0..(MAX_CHANNELS_ - 1) : SetChannelFullOn(orc, ch)
  \/ \E orc \in {AllOk, FailFirst}, ch \in 0..(MAX_CHANNELS_ - 1) : SetChannelFullOff(orc, ch)
  \/ \E orc \in {AllOk, FailFirst}, ch \in 0..(MAX_CHANNELS_ - 1), t \in {0, MAX_PWM_} :
       SetPwm(orc, <<ch, t, MAX_PWM_ - t>>)
  \/ Return

SpecChan == Init /\ [][NextChan]_vars

----------------------------------------------------------------------------
(* The prescaler: SetPwmFreq with every integer frequency of the accepted   *)
(* range, on a transport that works.                                        *)

NextPrescale ==
  \/ Idle /\ \E f \in MinFreq..MaxFreq : SetPwmFreq(AllOk, f)
  \/ \E orc \in {AllOk, FailFirst} : GetPrescale(orc)
  \/ Return

SpecPrescale == Init /\ [][NextPrescale]_vars

----------------------------------------------------------------------------
(* A transport that never fails: every public method with arguments inside  *)
(* their bounds, in any order, with any retry count from 0 up.              *)

NextOk ==
  \/ Reset(AllOk)
  \/ EnsureInitialized(AllOk)
  \/ \E f \in {MinFreq, 50, MaxFreq} : SetPwmFreq(AllOk, f)
  \/ \E a \in {<<0, 0, 2048>>, <<15, 4095, 4095>>} : SetPwm(AllOk, a)
  \/ \E a \in {<<0, -2>>, <<15, 2>>, <<15, 6>>} : SetDuty(AllOk, a)
  \/ \E a \in {<<0, 0>>, <<4095, 4095>>} : SetAllPwm(AllOk, a)
  \/ GetPrescale(AllOk)
  \/ Sleep(AllOk)
  \/ Wake(AllOk)
  \/ \E b \in BOOLEAN : SetOutputInvert(AllOk, b)
  \/ \E b \in BOOLEAN : SetOutputDriverMode(AllOk, b)
  \/ \E ch \in {0, 15} : SetChannelFullOn(AllOk, ch)
  \/ \E ch \in {0, 15} : SetChannelFullOff(AllOk, ch)
  \/ \E n \in 0..MaxRetries : SetRetries(n)
  \/ \E fn \in BOOLEAN : SetRetryDelay(fn)
  \/ \E e \in ErrorKinds : ClearError(e)
  \/ \E mask \in MaskVals : ClearErrorFlags(mask)
  \/ \E v \in Mode1Vals : ChipSetsMode1(v)
  \/ Return

SpecOk == Init /\ [][NextOk]_vars

\* The output configuration: SetOutputInvert and SetOutputDriverMode on a
\* transport that works, fails from some call on, or fails once and then
\* works, on a chip whose MODE2 holds other configuration too.
NextOut ==
  \/ \E orc \in StepFaults : Reset(orc)
  \/ \E orc \in StepFaults \cup {FailFirst}, b \in BOOLEAN : SetOutputInvert(orc, b)
  \/ \E orc \in StepFaults \cup {FailFirst}, b \in BOOLEAN : SetOutputDriverMode(orc, b)
  \/ \E v \in Mode2Vals : ChipSetsMode2(v)
  \/ Return

SpecOut == Init /\ [][NextOut]_vars

\* Two threads call the read-modify-write methods on one handle; their
\* transport calls interleave freely.
NextRace ==
  \/ (\A t \in Threads : running[t].pc = "idle") /\ Reset(AllOk)
  \/ \E t \in Threads, b \in BOOLEAN : ThreadBegin(t, "SetOutputInvert", <<b>>)
  \/ \E t \in Threads, b \in BOOLEAN : ThreadBegin(t, "SetOutputDriverMode", <<b>>)
  \/ \E t \in Threads : ThreadBegin(t, "Sleep", <<>>)
  \/ \E t \in Threads, f \in {MinFreq, MaxFreq} : ThreadBegin(t, "SetPwmFreq", <<f>>)
  \/ \E t \in Threads : ThreadRead(t)
  \/ \E t \in Threads : ThreadWrite(t)
  \/ ThreadsJoin
  \/ Return

SpecRace == Init /\ [][NextRace]_vars

\* The initialization state: Reset, the lazy initialization of the gated
\* methods, their failures, and the calls that configure the driver.
NextInit ==
  \/ \E orc \in StepFaults : Reset(orc)
  \/ \E orc \in StepFaults : EnsureInitialized(orc)
  \/ \E orc \in StepFaults, f \in {MinFreq - 1, MinFreq} : SetPwmFreq(orc, f)
  \/ \E orc \in StepFaults, a \in {<<0, 0, 2048>>, <<16, 0, 0>>} : SetPwm(orc, a)
  \/ \E orc \in StepFaults : GetPrescale(orc)
  \/ \E orc \in StepFaults : Sleep(orc)
  \/ \E orc \in StepFaults : Wake(orc)
  \/ \E orc \in StepFaults : SetOutputInvert(orc, TRUE)
  \/ \E orc \in StepFaults : SetOutputDriverMode(orc, FALSE)
  \/ ClearError(NotInitialized)
  \/ ClearErrorFlags(I2cWrite + I2cRead)
  \/ \E n \in {-1, 0} : SetRetries(n)
  \/ SetRetryDelay(TRUE)
  \/ Return

SpecInit == Init /\ [][NextInit]_vars

----------------------------------------------------------------------------
(* Reading the observation of a method call. *)

IsXfer(e) == e.k \in {"Read", "Write"}
IsBusCall(e) == e.k \in {"Ready", "Read", "Write"}
IsDone(e) == e.k \in {"ReadDone", "WriteDone"}

\* How many transport calls the first i events of log hold.
BusCalls(log, i) == Cardinality({ k \in 1..i : IsBusCall(log[k]) })

\* The register operations of a method call, by number.
RegOps(log) == { log[i].opn : i \in { k \in 1..Len(log) : IsDone(log[k]) } }
AttemptsOf(log, j) == { i \in 1..Len(log) : IsXfer(log[i]) /\ log[i].opn = j }
DelaysOf(log, j) == { i \in 1..Len(log) : log[i].k = "Delay" /\ log[i].opn = j }
DoneOf(log, j) == CHOOSE i \in 1..Len(log) : IsDone(log[i]) /\ log[i].opn = j
StartOf(log, j) == CHOOSE i \in 1..Len(log) :
                     log[i].opn = j /\ \A k \in 1..(i - 1) : log[k].opn # j
\* The number, within the method call, of the transport call that is the
\* first attempt of register operation j.
FirstCallOf(log, j) == BusCalls(log, StartOf(log, j) - 1) + 1

----------------------------------------------------------------------------
(* Claims about the register access layer (checked under SpecRetry). *)

\* C1: with a retry count r >= 0, every register operation makes at most
\* r + 1 transport attempts, all of the same transfer, and returns right
\* after the first attempt that succeeds; the delay callback runs only
\* between a failed attempt and the next attempt of the same operation, so
\* it runs (attempts - 1) times when it is set, never when it is not, and
\* never after the final attempt.
C1_RetryBudget ==
  retries_ >= 0 =>
    \A j \in RegOps(call.log) :
      LET A == AttemptsOf(call.log, j)
          D == DelaysOf(call.log, j)
          d == DoneOf(call.log, j)
      IN /\ Cardinality(A) <= retries_ + 1
         /\ \A i \in A \cup D : i < d
         /\ \A i \in A : call.log[i].ok => i + 1 = d
         /\ \A i \in A : \A k \in A :
              /\ call.log[i].k = call.log[k].k
              /\ call.log[i].reg = call.log[k].reg
              /\ (call.log[i].k = "Write" => call.log[i].data = call.log[k].data)
         /\ \A i \in D : (i - 1) \in A /\ ~call.log[i - 1].ok /\ (i + 1) \in A
         /\ (A # {} /\ retry_delay_) => Cardinality(D) = Cardinality(A) - 1
         /\ ~retry_delay_ => D = {}

\* C1 witness: a register operation used its whole budget of at least two
\* attempts, every attempt failed, and the callback ran between them.
C1_Witness ==
  /\ retries_ >= 1
  /\ retry_delay_
  /\ \E j \in RegOps(call.log) :
       /\ Cardinality(AttemptsOf(call.log, j)) = retries_ + 1
       /\ Cardinality(DelaysOf(call.log, j)) = retries_
       /\ \A i \in AttemptsOf(call.log, j) : ~call.log[i].ok

\* The transport's outcome plan fails the first k attempts of register
\* operation j and lets attempt k + 1 succeed.
FailsThenSucceeds(j, k) ==
  LET s == FirstCallOf(call.log, j) IN
  /\ \A i \in 0..(k - 1) : ~Outcome(call.orc, s + i)
  /\ Outcome(call.orc, s + k)

\* C2: if the transport fails the first k attempts of a register operation
\* and succeeds on attempt k + 1, with k <= retries, the operation returns
\* success after exactly k + 1 transport attempts.
C2_SucceedsWithinBudget ==
  i2c_ = "bus" =>
    \A j \in RegOps(call.log) : \A k \in 0..retries_ :
      FailsThenSucceeds(j, k) =>
        /\ call.log[DoneOf(call.log, j)].ok
        /\ Cardinality(AttemptsOf(call.log, j)) = k + 1

\* C2 witness: retries = 2, the transport failed twice and then succeeded,
\* and the method returned true after three attempts.
C2_Witness ==
  /\ retries_ = 2
  /\ call.ret
  /\ \E j \in RegOps(call.log) :
       /\ FailsThenSucceeds(j, 2)
       /\ Cardinality(AttemptsOf(call.log, j)) = 3

\* The transport's outcome plan fails every attempt the budget allows to
\* register operation j.
FailsThroughout(j) ==
  \A i \in 0..retries_ : ~Outcome(call.orc, FirstCallOf(call.log, j) + i)

\* C3: if every transport attempt of a register operation fails and
\* retries = n >= 0, the operation returns failure after exactly n + 1
\* attempts, with I2cWrite (a write) or I2cRead (a read) set in the flag
\* mask and recorded as last error when it returns; the method returns false.
C3_FailsAfterBudget ==
  (i2c_ = "bus" /\ retries_ >= 0) =>
    \A j \in RegOps(call.log) :
      FailsThroughout(j) =>
        LET d == call.log[DoneOf(call.log, j)]
            kind == IF d.k = "WriteDone" THEN I2cWrite ELSE I2cRead
        IN /\ ~d.ok
           /\ Cardinality(AttemptsOf(call.log, j)) = retries_ + 1
           /\ d.data = <<kind>>
           /\ HasError(error_flags_, kind)
           /\ ~call.ret

\* C3 witness: retries = 2 and a read failed three times.
C3_Witness ==
  /\ retries_ = 2
  /\ ~call.ret
  /\ HasError(error_flags_, I2cRead)
  /\ \E j \in RegOps(call.log) :
       /\ FailsThroughout(j)
       /\ call.log[DoneOf(call.log, j)].k = "ReadDone"
       /\ Cardinality(AttemptsOf(call.log, j)) = 3

----------------------------------------------------------------------------
(* Claims about state gating and parameter validation (checked under Spec). *)

GatedOps ==
  {"SetPwm", "SetDuty", "SetAllPwm", "SetPwmFreq", "SetChannelFullOn", "SetChannelFullOff",
   "Sleep", "Wake", "SetOutputInvert", "SetOutputDriverMode", "GetPrescale"}

\* The call has an argument outside its documented bounds.
OutOfBoundsCall ==
  \/ call.op = "SetPwm" /\ (call.args[1] > 15 \/ call.args[2] > 4095 \/ call.args[3] > 4095)
  \/ call.op = "SetDuty" /\ call.args[1] > 15
  \/ call.op = "SetAllPwm" /\ (call.args[1] > 4095 \/ call.args[2] > 4095)
  \/ call.op \in {"SetChannelFullOn", "SetChannelFullOff"} /\ call.args[1] > 15
  \/ call.op = "SetPwmFreq" /\ (call.args[1] < 24 \/ call.args[1] > 1526)

\* The call has every argument on the edge of its documented bounds.
BoundaryCall ==
  \/ call.op = "SetPwm" /\ call.args = <<15, 4095, 4095>>
  \/ call.op = "SetAllPwm" /\ call.args = <<4095, 4095>>
  \/ call.op \in {"SetChannelFullOn", "SetChannelFullOff"} /\ call.args = <<15>>
  \/ call.op = "SetPwmFreq" /\ call.args[1] \in {24, 1526}

NoBusCall == \A i \in 1..Len(call.log) : ~IsBusCall(call.log[i])

\* C4 as stated: a state-gated operation called while the driver is
\* Uninitialized returns false, sets NotInitialized and makes no transport
\* call.
C4_Original ==
  (call.op \in GatedOps /\ ~call.wasInit) =>
    (~call.ret /\ HasError(error_flags_, NotInitialized) /\ NoBusCall)

\* C4 amended: a state-gated operation called while the driver is
\* Uninitialized first attempts the lazy Reset (readiness check, then the
\* write of 0x00 to MODE1).  If that Reset fails the operation returns
\* false, NotInitialized is set (flag and last error) on top of Reset's
\* I2cWrite, and the only transport calls made are Reset's own (none on a
\* null transport).  If it succeeds the driver is Initialized, MODE1 was
\* written with 0x00, and the operation does not record NotInitialized.
C4_LazyReset ==
  (call.op \in GatedOps /\ ~call.wasInit) =>
    /\ i2c_ = "bus" => (call.log # <<>> /\ call.log[1].k = "Ready")
    /\ i2c_ = "null" => NoBusCall
    /\ IF initialized_
         THEN /\ last_error_ # NotInitialized
              /\ call.log[1].ok
              /\ \E i \in 1..Len(call.log) :
                   /\ call.log[i].k = "Write" /\ call.log[i].ok /\ call.log[i].opn = 1
                   /\ call.log[i].reg = MODE1 /\ call.log[i].data = <<0>>
         ELSE /\ ~call.ret
              /\ last_error_ = NotInitialized
              /\ HasError(error_flags_, NotInitialized)
              /\ HasError(error_flags_, I2cWrite)
              /\ \A i \in 1..Len(call.log) :
                   \/ call.log[i].k \in {"Ready", "Delay", "WriteDone"}
                   \/ /\ call.log[i].k = "Write" /\ call.log[i].opn = 1
                      /\ call.log[i].reg = MODE1 /\ call.log[i].data = <<0>>

\* C4 witness: a gated call on an uninitialized driver whose lazy Reset
\* reached the MODE1 write and failed there.
C4_Witness ==
  /\ call.op \in GatedOps /\ ~call.wasInit /\ ~initialized_ /\ ~call.ret
  /\ last_error_ = NotInitialized
  /\ \E i \in 1..Len(call.log) : call.log[i].k = "Write" /\ call.log[i].reg = MODE1

\* C5: in every driver state, a call with an out-of-bounds argument returns
\* false and sets OutOfRange / InvalidParam without touching the transport.
C5_ValidationFirst ==
  OutOfBoundsCall =>
    /\ ~call.ret
    /\ HasError(error_flags_, OutOfRange) \/ HasError(error_flags_, InvalidParam)
    /\ NoBusCall

\* C6: on an initialized driver, a call with an out-of-bounds channel, tick
\* or frequency returns false, sets OutOfRange and issues no register read
\* or write; channel 15, tick 4095 and the frequencies 24 and 1526 are
\* accepted (the call goes on to the transport and OutOfRange is not its
\* error).
C6_RejectsOutOfRange ==
  /\ (call.wasInit /\ OutOfBoundsCall) =>
       /\ ~call.ret
       /\ HasError(error_flags_, OutOfRange)
       /\ last_error_ = OutOfRange
       /\ call.log = <<>>
  /\ (call.wasInit /\ BoundaryCall) =>
       /\ \E i \in 1..Len(call.log) : IsXfer(call.log[i])
       /\ last_error_ # OutOfRange
       /\ call.orc = AllOk => call.ret

\* C6 witness: SetPwm(0, 0, 5000) rejected on an initialized driver.
C6_Witness ==
  /\ call.wasInit /\ call.op = "SetPwm" /\ call.args = <<0, 0, 5000>>
  /\ ~call.ret /\ HasError(error_flags_, OutOfRange) /\ call.log = <<>>

\* C10: a flag bit that is set stays set over every step that is not a
\* ClearError / ClearErrorFlags call, successful operations and successful
\* Reset included.
C10_StickyFlags ==
  [][ call'.op \notin {"ClearError", "ClearErrorFlags"} =>
        BitAnd(error_flags_, error_flags_') = error_flags_ ]_vars

\* C10 witness: a successful Reset returned with all four flags the driver
\* raises still set.
C10_Witness ==
  /\ call.op = "Reset" /\ call.ret
  /\ error_flags_ = I2cWrite + I2cRead + NotInitialized + OutOfRange

----------------------------------------------------------------------------
(* Claims about the frequency protocol (checked under SpecFreq). *)

Bit(x, b) == (x \div (2 ^ b)) % 2

\* The transfers of the call that succeeded, in order.
OkXfers(log) == SelectSeq(log, LAMBDA e : IsXfer(e) /\ e.ok)

\* C7: a successful SetPwmFreq(f) on an initialized driver performs exactly
\* four register operations, in this order: read MODE1 (value v); write
\* MODE1 with v's RESTART bit cleared, SLEEP bit set and every other bit
\* kept; write PRE_SCALE with calcPrescale(f); write MODE1 with v.  Every
\* transport call it makes is an attempt of one of these four.
C7_FreqSequence ==
  (call.op = "SetPwmFreq" /\ call.wasInit /\ call.ret) =>
    LET S == OkXfers(call.log) IN
    /\ Len(S) = 4
    /\ RegOps(call.log) = 1..4
    /\ \A i \in 1..Len(call.log) : call.log[i].k # "Ready"
    /\ \A i \in 1..Len(call.log) :
         IsXfer(call.log[i]) =>
           /\ call.log[i].k = S[call.log[i].opn].k
           /\ call.log[i].reg = S[call.log[i].opn].reg
           /\ call.log[i].k = "Write" => call.log[i].data = S[call.log[i].opn].data
    /\ \A j \in 1..4 : S[j].opn = j
    /\ S[1].k = "Read" /\ S[1].reg = MODE1 /\ Len(S[1].data) = 1
    /\ S[2].k = "Write" /\ S[2].reg = MODE1 /\ Len(S[2].data) = 1
    /\ \A b \in 0..7 :
         Bit(S[2].data[1], b) = IF b = 7 THEN 0 ELSE IF b = 4 THEN 1 ELSE Bit(S[1].data[1], b)
    /\ S[2].data[1] < 256
    /\ S[3].k = "Write" /\ S[3].reg = PRE_SCALE /\ S[3].data = <<calcPrescale(call.args[1])>>
    /\ S[4].k = "Write" /\ S[4].reg = MODE1 /\ S[4].data = S[1].data

\* C7 witness: a successful SetPwmFreq on an initialized driver that read
\* MODE1 = 0xA1 (RESTART, AI and ALLCALL set) and had to retry a transfer.
C7_Witness ==
  /\ call.op = "SetPwmFreq" /\ call.wasInit /\ call.ret
  /\ OkXfers(call.log)[1].data = <<161>>
  /\ \E i \in 1..Len(call.log) : IsXfer(call.log[i]) /\ ~call.log[i].ok

\* C8: every Write attempt to PRE_SCALE is made by SetPwmFreq, after a Write
\* to MODE1 with the SLEEP bit set has succeeded in the same call, with no
\* Write attempt to MODE1 with the SLEEP bit clear in between.
C8_SleepBeforePrescale ==
  \A i \in 1..Len(call.log) :
    (call.log[i].k = "Write" /\ call.log[i].reg = PRE_SCALE) =>
      /\ call.op = "SetPwmFreq"
      /\ \E j \in 1..(i - 1) :
           /\ call.log[j].k = "Write" /\ call.log[j].reg = MODE1 /\ call.log[j].ok
           /\ Bit(call.log[j].data[1], 4) = 1
           /\ \A k \in (j + 1)..(i - 1) :
                ~(/\ call.log[k].k = "Write" /\ call.log[k].reg = MODE1
                  /\ Bit(call.log[k].data[1], 4) = 0)

\* C8 witness: the chip was awake when SetPwmFreq read MODE1, and a Write
\* attempt to PRE_SCALE failed.
C8_Witness ==
  /\ call.op = "SetPwmFreq"
  /\ OkXfers(call.log) # <<>>
  /\ OkXfers(call.log)[1].k = "Read" /\ Bit(OkXfers(call.log)[1].data[1], 4) = 0
  /\ \E i \in 1..Len(call.log) :
       call.log[i].k = "Write" /\ call.log[i].reg = PRE_SCALE /\ ~call.log[i].ok

\* A successful GetPrescale returns the chip's PRE_SCALE register, which it
\* read over the transport in this call.
FreshPrescale ==
  (Idle /\ call'.op = "GetPrescale" /\ call'.ret) =>
    /\ call'.out = <<RegVal(regs, PRE_SCALE)>>
    /\ \E i \in 1..Len(call'.log) :
         /\ call'.log[i].k = "Read" /\ call'.log[i].ok
         /\ call'.log[i].reg = PRE_SCALE /\ call'.log[i].data = call'.out
    /\ RegVal(regs', PRE_SCALE) = RegVal(regs, PRE_SCALE)

\* C9 as stated: after a successful SetPwmFreq(f) the chip's MODE1 equals
\* its value before the call and PRE_SCALE equals calcPrescale(f); a
\* following successful GetPrescale returns the chip's register value.
C9_Original ==
  [][ /\ (Idle /\ call'.op = "SetPwmFreq" /\ call'.ret) =>
           /\ RegVal(regs', MODE1) = RegVal(regs, MODE1)
           /\ RegVal(regs', PRE_SCALE) = calcPrescale(call'.args[1])
      /\ FreshPrescale ]_vars

\* C9 amended: after a successful SetPwmFreq(f) on an initialized driver
\* the chip's MODE1 equals its value before the call; after any successful
\* SetPwmFreq(f) PRE_SCALE equals calcPrescale(f); a successful GetPrescale
\* returns the chip's PRE_SCALE register, freshly read.
C9_FreqRoundTrip ==
  [][ /\ (Idle /\ call'.op = "SetPwmFreq" /\ call'.ret) =>
           /\ initialized_ => RegVal(regs', MODE1) = RegVal(regs, MODE1)
           /\ RegVal(regs', PRE_SCALE) = calcPrescale(call'.args[1])
      /\ FreshPrescale ]_vars

\* C9 witness: GetPrescale returned 253, the prescaler of 24 Hz, which a
\* SetPwmFreq(24) before it programmed (the chip starts with 30), while
\* MODE1 holds 0xA1.
C9_Witness ==
  /\ call.op = "GetPrescale" /\ call.ret /\ call.out = <<253>>
  /\ RegVal(regs, MODE1) = 161

----------------------------------------------------------------------------
(* Claims about the error model (checked under Spec). *)

FlagBits == 0..15

\* Over the step, exactly the bit of kind e is ORed into the flag mask and e
\* is the last error.
Raised(e) ==
  /\ last_error_' = e
  /\ \A b \in FlagBits :
       Bit(error_flags_', b) = IF e = 2 ^ b THEN 1 ELSE Bit(error_flags_, b)

\* C11: setError(kind) ORs the bit of kind into the flag mask, leaves the
\* other bits, and records kind as last error (seen where a call raises one
\* error: a rejected argument, a failed Reset, a failed read on an
\* initialized driver); ClearError(kind) clears exactly the bit of kind;
\* ClearErrorFlags(mask) clears exactly the bits of mask; HasError(kind) is
\* true iff the bit of kind is set and HasAnyError() iff some bit is set.
C11_FlagAlgebra ==
  [][ /\ \A e \in ErrorKinds :
           HasError(error_flags_', e) <=>
             (\E b \in FlagBits : e = 2 ^ b /\ Bit(error_flags_', b) = 1)
      /\ HasAnyError(error_flags_') <=> (\E b \in FlagBits : Bit(error_flags_', b) = 1)
      /\ call'.op = "ClearError" =>
           \A b \in FlagBits :
             Bit(error_flags_', b) = IF call'.args[1] = 2 ^ b THEN 0 ELSE Bit(error_flags_, b)
      /\ call'.op = "ClearErrorFlags" =>
           \A b \in FlagBits :
             Bit(error_flags_', b) = IF Bit(call'.args[1], b) = 1 THEN 0 ELSE Bit(error_flags_, b)
      /\ (initialized_ /\ OutOfBoundsCall') => Raised(OutOfRange)
      /\ (call'.op = "Reset" /\ ~call'.ret) => Raised(I2cWrite)
      /\ (initialized_ /\ call'.op = "GetPrescale" /\ ~call'.ret) => Raised(I2cRead)
    ]_vars

\* C11 witness: ClearErrorFlags(0x21) returned and left I2cRead and
\* NotInitialized set (NotInitialized is only ever raised together with
\* I2cWrite, which the mask clears).
C11_Witness ==
  /\ call.op = "ClearErrorFlags" /\ call.args = <<33>>
  /\ error_flags_ = I2cRead + NotInitialized

----------------------------------------------------------------------------
(* Claims about Reset and lazy initialization. *)

\* C12: a Reset() that succeeds, whatever the driver state before it, has
\* called the transport readiness check (once, first, with success), has
\* written the single byte 0x00 to MODE1 and nothing else (any other
\* transfer is a failed attempt of that write), and leaves the driver
\* Initialized with last error None.
C12_ResetSuccess ==
  (call.op = "Reset" /\ call.ret) =>
    /\ call.log # <<>>
    /\ call.log[1].k = "Ready" /\ call.log[1].ok
    /\ \A i \in 2..Len(call.log) : call.log[i].k # "Ready"
    /\ Len(OkXfers(call.log)) = 1
    /\ \A i \in 1..Len(call.log) :
         IsXfer(call.log[i]) =>
           /\ call.log[i].k = "Write" /\ call.log[i].reg = MODE1
           /\ call.log[i].data = <<0>>
    /\ RegVal(regs, MODE1) = 0
    /\ initialized_
    /\ last_error_ = None

\* C12 witness: a Reset on an initialized driver succeeded after a failed
\* attempt of the MODE1 write, with error flags of earlier calls still set.
C12_Witness ==
  /\ call.op = "Reset" /\ call.ret /\ call.wasInit
  /\ \E i \in 1..Len(call.log) : IsXfer(call.log[i]) /\ ~call.log[i].ok
  /\ error_flags_ # 0

\* C13: a Reset() that fails leaves the initialization state as it was
\* before the call.
C13_FailedResetKeepsState ==
  (call.op = "Reset" /\ ~call.ret) => (initialized_ = call.wasInit)

\* The call ran the transport readiness check and it failed.
ReadyCheckFailed == call.log # <<>> /\ call.log[1].k = "Ready" /\ ~call.log[1].ok

\* C14: when the transport readiness check fails during Reset or lazy
\* initialization, DeviceNotFound is recorded, no register Read or Write is
\* issued and the call returns false.
C14_DeviceNotFound ==
  ReadyCheckFailed =>
    /\ HasError(error_flags_, DeviceNotFound)
    /\ \A i \in 1..Len(call.log) : ~IsXfer(call.log[i])
    /\ ~call.ret

\* C15: nothing touches the transport at construction; every transport Read
\* or Write comes after a readiness check that returned true, in this call
\* or in an earlier one; and the readiness check is only ever the first
\* transport call of a Reset, explicit or run by lazy initialization on an
\* Uninitialized driver.
C15_ReadyBeforeTraffic ==
  /\ ~bus_ready /\ call.log = <<>>
  /\ [][ /\ \A i \in 1..Len(call'.log) :
              IsXfer(call'.log[i]) =>
                \/ bus_ready
                \/ \E j \in 1..(i - 1) : call'.log[j].k = "Ready" /\ call'.log[j].ok
         /\ \A i \in 1..Len(call'.log) :
              call'.log[i].k = "Ready" =>
                /\ i = 1
                /\ \/ call'.op = "Reset"
                   \/ ~initialized_ /\ call'.op \in GatedOps \cup {"EnsureInitialized"}
       ]_vars

\* C15 witness: SetPwm on an initialized driver reached the transport with
\* no readiness check of its own; the check had returned true in an earlier
\* call.
C15_Witness ==
  /\ call.op = "SetPwm" /\ call.wasInit /\ bus_ready
  /\ \E i \in 1..Len(call.log) : IsXfer(call.log[i])
  /\ \A i \in 1..Len(call.log) : call.log[i].k # "Ready"

\* C16: EnsureInitialized() on an Initialized driver returns true, makes no
\* transport call and changes neither the driver nor the chip; on an
\* Uninitialized driver it returns what Reset() returns and leaves the
\* driver, the chip and the transport calls that Reset() leaves.
C16_EnsureInitialized ==
  [][ (Idle /\ call'.op = "EnsureInitialized") =>
        IF initialized_
          THEN /\ call'.ret
               /\ call'.log = <<>>
               /\ UNCHANGED <<initialized_, last_error_, error_flags_, retries_,
                              retry_delay_, regs, bus_ready>>
          ELSE LET r == ResetOp(Ctx(call'.orc), Before) IN
               /\ call'.ret = r.ok
               /\ call'.log = r.m.log
               /\ initialized_' = r.m.init
               /\ last_error_' = r.m.last
               /\ error_flags_' = r.m.flags
               /\ regs' = r.m.regs
    ]_vars

\* C16 witness: EnsureInitialized returned on a driver that was Initialized
\* and asleep, with its error flags set.
C16_Witness ==
  /\ call.op = "EnsureInitialized" /\ call.wasInit /\ call.ret /\ call.log = <<>>
  /\ Bit(RegVal(regs, MODE1), 4) = 1
  /\ error_flags_ # 0

----------------------------------------------------------------------------
(* Claims about power management (checked under SpecPower). *)

\* C17: on an Initialized driver a successful Sleep() leaves MODE1 with bit
\* 0x10 set and every other bit as it was, and a successful Wake() leaves
\* MODE1 with bit 0x10 clear and every bit other than 0x10 and 0x80 as it
\* was; the driver stays Initialized.  Sleep() then Wake() therefore returns
\* to an awake chip whose MODE1 bits other than sleep and restart are those
\* before the Sleep call.
C17_SleepWakeRoundTrip ==
  [][ /\ (Idle /\ initialized_ /\ call'.op = "Sleep" /\ call'.ret) =>
           /\ initialized_'
           /\ \A b \in 0..7 :
                Bit(RegVal(regs', MODE1), b) = IF b = 4 THEN 1 ELSE Bit(RegVal(regs, MODE1), b)
      /\ (Idle /\ initialized_ /\ call'.op = "Wake" /\ call'.ret) =>
           /\ initialized_'
           /\ Bit(RegVal(regs', MODE1), 4) = 0
           /\ \A b \in (0..7) \ {4, 7} :
                Bit(RegVal(regs', MODE1), b) = Bit(RegVal(regs, MODE1), b)
    ]_vars

\* C17 witness: a successful Wake on an initialized driver read MODE1 with
\* SLEEP, AI and ALLCALL set and left MODE1 with AI and ALLCALL set and
\* SLEEP clear.
C17_Witness ==
  /\ call.op = "Wake" /\ call.ret /\ call.wasInit
  /\ OkXfers(call.log)[1].k = "Read"
  /\ Bit(OkXfers(call.log)[1].data[1], 4) = 1
  /\ Bit(OkXfers(call.log)[1].data[1], 5) = 1
  /\ Bit(RegVal(regs, MODE1), 4) = 0
  /\ Bit(RegVal(regs, MODE1), 5) = 1
  /\ Bit(RegVal(regs, MODE1), 0) = 1

\* C18: a successful Wake() with no transport failure performs one read of
\* MODE1 (value v) and then, if bit 0x80 of v is set, exactly two writes to
\* MODE1 (v with the sleep bit cleared, then that value with the restart bit
\* set), otherwise exactly one write to MODE1 (v with the sleep bit
\* cleared).  On an initialized driver these are all its transport calls;
\* on an uninitialized one the lazy Reset (readiness check, write of 0x00
\* to MODE1) comes before the read.
C18_WakeWrites ==
  (/\ call.op = "Wake" /\ call.ret
   /\ \A i \in 1..Len(call.log) : IsXfer(call.log[i]) => call.log[i].ok) =>
    LET S == SelectSeq(call.log, IsXfer)
        k == IF call.wasInit THEN 0 ELSE 1
    IN
    /\ call.wasInit => \A i \in 1..Len(call.log) : IsXfer(call.log[i]) \/ IsDone(call.log[i])
    /\ ~call.wasInit =>
         S[1].k = "Write" /\ S[1].reg = MODE1 /\ S[1].data = <<0>>
    /\ Len(S) >= k + 2
    /\ S[k + 1].k = "Read" /\ S[k + 1].reg = MODE1
    /\ LET v == S[k + 1].data[1]
           awake == v - 16 * Bit(v, 4)
       IN
       /\ S[k + 2].k = "Write" /\ S[k + 2].reg = MODE1 /\ S[k + 2].data = <<awake>>
       /\ IF Bit(v, 7) = 1
            THEN /\ Len(S) = k + 3
                 /\ S[k + 3].k = "Write" /\ S[k + 3].reg = MODE1
                 /\ Bit(S[k + 3].data[1], 7) = 1
                 /\ \A b \in 0..6 : Bit(S[k + 3].data[1], b) = Bit(awake, b)
            ELSE Len(S) = k + 2

\* C18 witness: a Wake with no transport failure on an initialized driver
\* read MODE1 = 0xB1 (RESTART and SLEEP set) and made two writes.
C18_Witness ==
  /\ call.op = "Wake" /\ call.ret /\ call.wasInit
  /\ \A i \in 1..Len(call.log) : IsXfer(call.log[i]) => call.log[i].ok
  /\ Len(SelectSeq(call.log, IsXfer)) = 3
  /\ SelectSeq(call.log, IsXfer)[1].data = <<177>>

----------------------------------------------------------------------------
(* Claims about the PWM block encoding (checked under SpecPwm). *)

\* The block writes of the call that succeeded.
OkBlocks(log) == SelectSeq(log, LAMBDA e : e.k = "Write" /\ e.ok /\ Len(e.data) = 4)

\* The registers a 4-byte block at reg covers.
BlockAt(reg) == reg .. (reg + 3)

\* C19: a successful SetPwm(n, on, off) with n in 0..15 and on, off in
\* 0..4095 makes exactly one successful 4-byte block write, at 0x06 + 4n,
\* with the bytes on mod 256, on div 256, off mod 256, off div 256, the
\* second and fourth below 16 (bits 4-7 zero); every other transfer of the
\* call is a failed attempt of that write or the lazy Reset's MODE1 write;
\* the address is in 0x06..0x42 and the block covers no register of another
\* channel's block.  A successful SetAllPwm(on, off) writes the same four
\* bytes at 0xFA.
C19_PwmBlock ==
  (call.op \in {"SetPwm", "SetAllPwm"} /\ call.ret) =>
    LET B == OkBlocks(call.log)
        n == call.args[1]
        on == IF call.op = "SetPwm" THEN call.args[2] ELSE call.args[1]
        off == IF call.op = "SetPwm" THEN call.args[3] ELSE call.args[2]
        at == IF call.op = "SetPwm" THEN 6 + 4 * n ELSE 250
    IN
    /\ Len(B) = 1
    /\ B[1].reg = at
    /\ B[1].data = << on % 256, on \div 256, off % 256, off \div 256 >>
    /\ B[1].data[2] < 16 /\ B[1].data[4] < 16
    /\ \A i \in 1..Len(call.log) :
         IsXfer(call.log[i]) =>
           \/ /\ call.log[i].k = "Write" /\ call.log[i].reg = at
              /\ call.log[i].data = B[1].data
           \/ /\ ~call.wasInit /\ call.log[i].k = "Write" /\ call.log[i].reg = MODE1
              /\ call.log[i].data = <<0>>
    /\ call.op = "SetPwm" =>
         /\ B[1].reg >= 6 /\ B[1].reg <= 66
         /\ \A other \in (0..15) \ {n} : BlockAt(B[1].reg) \cap BlockAt(6 + 4 * other) = {}

\* C19 witness: SetPwm(15, 2748, 255) succeeded on its second attempt; its
\* block went to 0x42.
C19_Witness ==
  /\ call.op = "SetPwm" /\ call.ret /\ call.args = <<15, 2748, 255>>
  /\ \E i \in 1..Len(call.log) : IsXfer(call.log[i]) /\ ~call.log[i].ok
  /\ OkBlocks(call.log)[1].reg = 66

\* decode of a 4-byte block: (byte0 | byte1 << 8, byte2 | byte3 << 8).
DecodeBlock(d) == << d[1] + 256 * d[2], d[3] + 256 * d[4] >>

\* C20: the block a successful SetPwm / SetAllPwm(on, off) writes consists
\* of four bytes (0..255) and decodes to exactly (on, off); the encoding of
\* two distinct tick pairs differs.
C20_BlockRoundTrip ==
  /\ (call.op \in {"SetPwm", "SetAllPwm"} /\ call.ret) =>
       LET d == OkBlocks(call.log)[1].data
           ticks == IF call.op = "SetPwm" THEN <<call.args[2], call.args[3]>> ELSE call.args
       IN /\ \A i \in 1..4 : d[i] \in 0..255
          /\ DecodeBlock(d) = ticks
  /\ Idle =>
       \A p \in TickVals \X TickVals, q \in TickVals \X TickVals :
         PwmBytes(p[1], p[2]) = PwmBytes(q[1], q[2]) => p = q

\* C20 witness: SetAllPwm(4095, 2730) succeeded and its block decodes to
\* (4095, 2730).
C20_Witness ==
  /\ call.op = "SetAllPwm" /\ call.ret /\ call.args = <<4095, 2730>>
  /\ DecodeBlock(OkBlocks(call.log)[1].data) = <<4095, 2730>>

\* C21: a successful SetChannelFullOn(n), n in 0..15, makes one successful
\* block write, of [0x00, 0x10, 0x00, 0x00] at 0x06 + 4n, and a successful
\* SetChannelFullOff(n) one of [0x00, 0x00, 0x00, 0x10] at 0x06 + 4n; no
\* block any call writes has both flag bits (bit 4 of byte 1 and of byte 3)
\* set, and every block SetPwm or SetDuty writes has both clear.
C21_FullOnOff ==
  /\ (call.op \in {"SetChannelFullOn", "SetChannelFullOff"} /\ call.ret) =>
       /\ call.args[1] \in 0..15
       /\ Len(OkBlocks(call.log)) = 1
       /\ OkBlocks(call.log)[1].reg = 6 + 4 * call.args[1]
       /\ OkBlocks(call.log)[1].data =
            IF call.op = "SetChannelFullOn" THEN <<0, 16, 0, 0>> ELSE <<0, 0, 0, 16>>
  /\ \A i \in 1..Len(call.log) :
       (call.log[i].k = "Write" /\ Len(call.log[i].data) = 4) =>
         /\ ~(Bit(call.log[i].data[2], 4) = 1 /\ Bit(call.log[i].data[4], 4) = 1)
         /\ call.op \in {"SetPwm", "SetDuty", "SetDutyNaN"} =>
              (Bit(call.log[i].data[2], 4) = 0 /\ Bit(call.log[i].data[4], 4) = 0)

\* C21 witness: SetChannelFullOff(15) succeeded on its second attempt.
C21_Witness ==
  /\ call.op = "SetChannelFullOff" /\ call.ret /\ call.args = <<15>>
  /\ \E i \in 1..Len(call.log) : IsXfer(call.log[i]) /\ ~call.log[i].ok
  /\ OkBlocks(call.log)[1].data = <<0, 0, 0, 16>>

----------------------------------------------------------------------------
(* Claims about the prescaler (checked under SpecPrescale). *)

\* The byte a successful SetPwmFreq wrote to PRE_SCALE.
PrescaleWritten(log) ==
  SelectSeq(log, LAMBDA e : e.k = "Write" /\ e.ok /\ e.reg = PRE_SCALE)[1].data[1]

\* C22: for every frequency f in 24..1526 the prescale value SetPwmFreq(f)
\* writes lies in 3..255, and it is not below the value of the next higher
\* frequency nor above the value of the next lower one (so the value does
\* not increase as f increases).
C22_PrescaleRangeMonotone ==
  (call.op = "SetPwmFreq" /\ call.ret) =>
    LET f == call.args[1]
        p == PrescaleWritten(call.log)
    IN /\ p \in 3..255
       /\ f < 1526 => p >= calcPrescale(f + 1)
       /\ f > 24 => p <= calcPrescale(f - 1)

\* C22 witness: SetPwmFreq(1526) wrote 3, the smallest value.
C22_Witness ==
  /\ call.op = "SetPwmFreq" /\ call.ret /\ call.args = <<1526>>
  /\ PrescaleWritten(call.log) = 3

\* round_half_away_from_zero(25_000_000 / (4096 * f)) for f > 0.
RoundedDivider(f) == (2 * 25000000 + 4096 * f) \div (2 * 4096 * f)

\* clamp(round(25_000_000 / (4096 * f)) - 1, 3, 255)
ReferencePrescale(f) ==
  LET p == RoundedDivider(f) - 1 IN IF p < 3 THEN 3 ELSE IF p > 255 THEN 255 ELSE p

\* C23: for every integer frequency f in 24..1526 the value SetPwmFreq(f)
\* writes to PRE_SCALE is clamp(round(25_000_000 / (4096 * f)) - 1, 3, 255);
\* 50 Hz gives 121, 1000 Hz gives 5, 24 Hz gives 253, 1526 Hz gives 3 and
\* 200 Hz gives a value within 1 of 29.
C23_PrescaleFormula ==
  (call.op = "SetPwmFreq" /\ call.ret) =>
    LET f == call.args[1]
        p == PrescaleWritten(call.log)
    IN /\ p = ReferencePrescale(f)
       /\ f = 50 => p = 121
       /\ f = 1000 => p = 5
       /\ f = 24 => p = 253
       /\ f = 1526 => p = 3
       /\ f = 200 => p \in 28..30

\* C23 witness: SetPwmFreq(200) wrote 30.
C23_Witness ==
  /\ call.op = "SetPwmFreq" /\ call.ret /\ call.args = <<200>>
  /\ PrescaleWritten(call.log) = 30

----------------------------------------------------------------------------
(* Claims about SetDuty (checked under SpecChan). *)

\* round(clamp(q / DutyDen, 0, 1) * 4095), rounding half up.
ReferenceOffTick(q) ==
  IF q <= 0 THEN 0
  ELSE IF q >= DutyDen THEN 4095
  ELSE (2 * 4095 * q + DutyDen) \div (2 * DutyDen)

\* The call had a transport call that failed.
SomeCallFailed(log) == \E i \in 1..Len(log) : IsBusCall(log[i]) /\ ~log[i].ok

\* C24 as stated: whatever the duty, a SetDuty on a valid channel fails only
\* on a transport failure and never raises OutOfRange.
C24_Original ==
  (/\ call.op \in {"SetDuty", "SetDutyNaN"} /\ call.args[1] <= 15
   /\ i2c_ = "bus" /\ ~SomeCallFailed(call.log)) =>
    (call.ret /\ last_error_ # OutOfRange)

\* C24 amended: for every duty that is a number, SetDuty(ch, d) returns
\* what SetPwm(ch, 0, round(clamp(d, 0, 1) * 4095)) returns and leaves the
\* driver, the chip and the transport calls it leaves; the off tick is in
\* 0..4095, 0 for d <= 0 and 4095 for d >= 1; the call fails only with an
\* invalid channel or a failed transport call, and on a valid channel it
\* does not raise OutOfRange.
C24_DutyAsPwm ==
  [][ (Idle /\ call'.op = "SetDuty") =>
        LET ch == call'.args[1]
            q == call'.args[2]
            r == SetPwmOp(Ctx(call'.orc), Before, ch, 0, ReferenceOffTick(q))
        IN
        /\ ReferenceOffTick(q) \in 0..4095
        /\ q < 0 => ReferenceOffTick(q) = ReferenceOffTick(0)
        /\ q > DutyDen => ReferenceOffTick(q) = ReferenceOffTick(DutyDen)
        /\ call'.ret = r.ok
        /\ call'.log = r.m.log
        /\ initialized_' = r.m.init
        /\ last_error_' = r.m.last
        /\ error_flags_' = r.m.flags
        /\ regs' = r.m.regs
        /\ ~call'.ret => (ch > 15 \/ i2c_ = "null" \/ SomeCallFailed(call'.log))
        /\ ch <= 15 =>
             /\ last_error_' # OutOfRange
             /\ HasError(error_flags_', OutOfRange) = HasError(error_flags_, OutOfRange)
    ]_vars

\* C24 witness: SetDuty(15, d) with d above 1 succeeded and wrote off tick
\* 4095.
C24_Witness ==
  /\ call.op = "SetDuty" /\ call.ret /\ call.args = <<15, DutyDen + 2>>
  /\ OkBlocks(call.log)[1].data = <<0, 0, 255, 15>>

----------------------------------------------------------------------------
(* Claims about what a call leaves in the error state. *)

\* The public methods that return bool.
DriverOps == GatedOps \cup {"Reset", "EnsureInitialized", "SetDutyNaN"}

\* C25: after a public operation returns, the last error is None if it
\* returned true and an error kind other than None if it returned false.
C25_LastErrorOfCall ==
  call.op \in DriverOps => (call.ret <=> last_error_ = None)

\* C26: a call that returns true leaves the error-flag mask as it was,
\* failed and retried transport attempts notwithstanding; in particular an
\* empty mask stays empty.
C26_SuccessAddsNoFlag ==
  [][ (call'.op \in DriverOps /\ call'.ret) =>
        /\ error_flags_' = error_flags_
        /\ ~HasAnyError(error_flags_) => ~HasAnyError(error_flags_')
    ]_vars

\* C26 witness: SetPwm returned true after a failed attempt and the mask is
\* empty.
C26_Witness ==
  /\ call.op = "SetPwm" /\ call.ret /\ error_flags_ = 0
  /\ \E i \in 1..Len(call.log) : IsXfer(call.log[i]) /\ ~call.log[i].ok

\* C27: on a transport whose calls all succeed, every public operation
\* called with arguments inside their bounds returns true, in whatever
\* order the operations are called and whatever state the driver and the
\* chip are in (uninitialized, awake, asleep), and it records no error.
C27_AllSucceed ==
  (call.op \in DriverOps /\ i2c_ = "bus") =>
    /\ call.ret
    /\ error_flags_ = 0
    /\ initialized_

\* C27 witness: SetPwmFreq returned true on a chip that was asleep and is
\* asleep again.
C27_Witness ==
  /\ call.op = "SetPwmFreq" /\ call.ret /\ call.wasInit /\ i2c_ = "bus"
  /\ Bit(OkXfers(call.log)[1].data[1], 4) = 1
  /\ Bit(RegVal(regs, MODE1), 4) = 1

----------------------------------------------------------------------------
(* Claims about failures in the middle of a method (SpecFreq, Spec). *)

\* The events of the log from the first successful Read of MODE1 on.
FromMode1Read(log) ==
  LET at == CHOOSE i \in 1..Len(log) :
              /\ log[i].k = "Read" /\ log[i].ok /\ log[i].reg = MODE1
              /\ \A j \in 1..(i - 1) : ~(log[j].k = "Read" /\ log[j].ok)
  IN SubSeq(log, at, Len(log))

\* SetPwmFreq failed after its write of the sleep byte had succeeded.
FailedAfterSleepWrite ==
  /\ call.op = "SetPwmFreq" /\ ~call.ret
  /\ \E i \in 1..Len(call.log) : call.log[i].k = "Read" /\ call.log[i].ok
  /\ \E i \in 1..Len(FromMode1Read(call.log)) :
       /\ FromMode1Read(call.log)[i].k = "Write" /\ FromMode1Read(call.log)[i].ok
       /\ FromMode1Read(call.log)[i].reg = MODE1

\* C28: when SetPwmFreq fails after its write of the sleep byte succeeded
\* (the PRE_SCALE write or the restoring MODE1 write ran out of retries),
\* it returns false with I2cWrite set, its last transport call is the last
\* failed attempt of that write (retries_ + 1 of them, all of the same
\* write), the chip's MODE1 is the value read with RESTART cleared and
\* SLEEP set, and the driver is still Initialized.
C28_MidSequenceFailure ==
  FailedAfterSleepWrite =>
    LET L == FromMode1Read(call.log)
        v == L[1].data[1]
        X == SelectSeq(L, IsXfer)
        last == X[Len(X)]
        tail == { i \in 1..Len(X) : X[i].opn = last.opn }
    IN
    /\ HasError(error_flags_, I2cWrite) /\ last_error_ = I2cWrite
    /\ initialized_
    /\ \A b \in 0..7 :
         Bit(RegVal(regs, MODE1), b) = IF b = 7 THEN 0 ELSE IF b = 4 THEN 1 ELSE Bit(v, b)
    /\ \A i \in tail : ~X[i].ok /\ X[i].k = "Write" /\ X[i].data = last.data /\ X[i].reg = last.reg
    /\ Cardinality(tail) = retries_ + 1
    /\ \/ last.reg = PRE_SCALE
       \/ last.reg = MODE1 /\ last.data = <<v>>
    /\ L[Len(L)].k = "WriteDone" /\ ~L[Len(L)].ok

\* C28 witness: the chip was awake, the PRE_SCALE write succeeded and the
\* restoring write failed: SetPwmFreq returned false and the chip is asleep.
C28_Witness ==
  /\ FailedAfterSleepWrite
  /\ Bit(FromMode1Read(call.log)[1].data[1], 4) = 0
  /\ \E i \in 1..Len(call.log) :
       call.log[i].k = "Write" /\ call.log[i].ok /\ call.log[i].reg = PRE_SCALE
  /\ Bit(RegVal(regs, MODE1), 4) = 1
  /\ initialized_

\* The methods that read a mode register before they write it.
ModeReaders ==
  {"SetPwmFreq", "Wake", "Sleep", "SetOutputInvert", "SetOutputDriverMode"}

\* A call of one of them whose read of the mode register ran out of retries.
ModeReadFailed ==
  /\ call.op \in ModeReaders
  /\ \E i \in 1..Len(call.log) : call.log[i].k = "ReadDone" /\ ~call.log[i].ok

\* C29 as stated: when the read of the mode register fails the method has
\* issued no Write at all.
C29_Original ==
  ModeReadFailed =>
    /\ ~call.ret
    /\ \A i \in 1..Len(call.log) : call.log[i].k # "Write"

\* C29: when the read of the mode register fails in SetPwmFreq, Wake, Sleep,
\* SetOutputInvert or SetOutputDriverMode, the method returns false with
\* I2cRead and the failed read is its last transport activity: no Write
\* follows it.  The only Write the call can hold is the one of 0x00 to MODE1
\* that the Reset of a lazy initialization made before the read, on a driver
\* that was not initialized.
C29_ReadFailureStops ==
  ModeReadFailed =>
    LET L == call.log
        at == CHOOSE i \in 1..Len(L) : L[i].k = "ReadDone" /\ ~L[i].ok
    IN
    /\ ~call.ret
    /\ at = Len(L)
    /\ L[at].reg \in {MODE1, MODE2}
    /\ last_error_ = I2cRead /\ HasError(error_flags_, I2cRead)
    /\ \A i \in 1..Len(L) : L[i].k = "Write" =>
         /\ ~call.wasInit
         /\ L[i].reg = MODE1 /\ L[i].data = <<0>>
         /\ \A j \in 1..i : L[j].k # "Read"

\* C29 witness: Sleep on an initialized driver whose read of MODE1 failed at
\* every attempt returned false and the call holds reads only.
C29_Witness ==
  /\ ModeReadFailed /\ call.op = "Sleep" /\ call.wasInit /\ ~call.ret
  /\ \A i \in 1..Len(call.log) : IsXfer(call.log[i]) => call.log[i].k = "Read"
  /\ Cardinality({ i \in 1..Len(call.log) : call.log[i].k = "Read" }) = retries_ + 1

----------------------------------------------------------------------------
(* Claim about the transport calls one method can make (SpecFreq). *)

\* The readiness checks and the Read/Write attempts of a call.
ReadyChecks(log) == { i \in 1..Len(log) : log[i].k = "Ready" }
XferAttempts(log) == { i \in 1..Len(log) : IsXfer(log[i]) }

\* C30: for a retry count r >= 0 a method returns after at most one
\* readiness check and at most 5 * (r + 1) Read/Write attempts: it performs
\* at most five register operations, each of at most r + 1 attempts; an
\* operation that succeeded ended at its first successful attempt, one that
\* failed made r + 1 failed attempts and is the last of the call; a call
\* that returned true completed every operation it started.
C30_BoundedCalls ==
  (call.op \in DriverOps /\ retries_ >= 0) =>
    LET L == call.log IN
    /\ Cardinality(ReadyChecks(L)) <= 1
    /\ Cardinality(XferAttempts(L)) <= 5 * (retries_ + 1)
    /\ Cardinality(RegOps(L)) <= 5
    /\ \A i \in XferAttempts(L) : L[i].opn \in RegOps(L)
    /\ \A j \in RegOps(L) :
         /\ Cardinality(AttemptsOf(L, j)) <= retries_ + 1
         /\ \A i \in AttemptsOf(L, j) :
              /\ i < DoneOf(L, j)
              /\ L[i].ok <=> (L[DoneOf(L, j)].ok /\ \A k \in AttemptsOf(L, j) : k <= i)
         /\ ~L[DoneOf(L, j)].ok =>
              /\ Cardinality(AttemptsOf(L, j)) = retries_ + 1
              /\ DoneOf(L, j) = Len(L)
              /\ ~call.ret
    /\ call.ret => \A j \in RegOps(L) : L[DoneOf(L, j)].ok

\* C30 witness: SetPwmFreq on an uninitialized driver with no retries ran
\* to completion: one readiness check and exactly five attempts, the reset
\* write, the MODE1 read and three writes.
C30_Witness ==
  /\ call.op = "SetPwmFreq" /\ call.ret /\ ~call.wasInit /\ retries_ = 0
  /\ Cardinality(ReadyChecks(call.log)) = 1
  /\ Cardinality(XferAttempts(call.log)) = 5
  /\ Cardinality({ i \in XferAttempts(call.log) : call.log[i].k = "Write" }) = 4

----------------------------------------------------------------------------
(* Claims about the output configuration (SpecOut). *)

OutputOps == {"SetOutputInvert", "SetOutputDriverMode"}

\* The driver and chip a method call left, as the next call finds them.
NextCallFrom(m) == [m EXCEPT !.log = <<>>, !.n = 0, !.opn = 0, !.out = <<>>]

\* The chip and the initialization state after SetOutputInvert(b) followed
\* by SetOutputDriverMode(t), and after the two in the other order, from the
\* current state on a transport that works.
InvertThenDriver(b, t) ==
  LET a == SetOutputInvertOp(Ctx(AllOk), Before, b)
      z == SetOutputDriverModeOp(Ctx(AllOk), NextCallFrom(a.m), t)
  IN [regs |-> z.m.regs, init |-> z.m.init, ok |-> a.ok /\ z.ok]
DriverThenInvert(b, t) ==
  LET a == SetOutputDriverModeOp(Ctx(AllOk), Before, t)
      z == SetOutputInvertOp(Ctx(AllOk), NextCallFrom(a.m), b)
  IN [regs |-> z.m.regs, init |-> z.m.init, ok |-> a.ok /\ z.ok]
InvertTwice(b) ==
  LET a == SetOutputInvertOp(Ctx(AllOk), Before, b)
      z == SetOutputInvertOp(Ctx(AllOk), NextCallFrom(a.m), b)
  IN [once |-> a.m.regs, twice |-> z.m.regs, ok |-> a.ok /\ z.ok]
DriverTwice(t) ==
  LET a == SetOutputDriverModeOp(Ctx(AllOk), Before, t)
      z == SetOutputDriverModeOp(Ctx(AllOk), NextCallFrom(a.m), t)
  IN [once |-> a.m.regs, twice |-> z.m.regs, ok |-> a.ok /\ z.ok]

\* What a successful output-configuration call did to MODE2: the last two
\* successful transfers are the read of MODE2 and the write of MODE2 with
\* the method's bit (0x10 invert, 0x04 driver) as the argument says and
\* every other bit as read, and the chip holds the byte written.
ModifiesMode2Bit ==
  LET X == OkXfers(call.log)
      bit == IF call.op = "SetOutputInvert" THEN 4 ELSE 2
  IN
  /\ Len(X) >= 2
  /\ X[Len(X) - 1].k = "Read" /\ X[Len(X) - 1].reg = MODE2
  /\ X[Len(X)].k = "Write" /\ X[Len(X)].reg = MODE2
  /\ \A b \in 0..7 :
       Bit(X[Len(X)].data[1], b) =
         IF b = bit THEN (IF call.args[1] THEN 1 ELSE 0) ELSE Bit(X[Len(X) - 1].data[1], b)
  /\ RegVal(regs, MODE2) = X[Len(X)].data[1]
  /\ Cardinality({ i \in 1..Len(X) : X[i].reg = MODE2 }) = 2

\* C31 as stated: a successful SetOutputInvert or SetOutputDriverMode is the
\* read-modify-write of MODE2 and makes no transfer to any other register.
C31_Original ==
  (call.op \in OutputOps /\ call.ret) =>
    /\ ModifiesMode2Bit
    /\ \A i \in 1..Len(call.log) : IsXfer(call.log[i]) => call.log[i].reg = MODE2

\* C31: a successful SetOutputInvert(b) reads MODE2 and writes it back with
\* only bit 0x10 changed (set iff b), a successful SetOutputDriverMode(t)
\* with only bit 0x04 changed (set iff t).  On an initialized driver every
\* transfer of the call addresses MODE2; on a driver that was not
\* initialized the lazy Reset first writes 0x00 to MODE1, and that is the
\* only transfer to another register.  From every state, on a transport
\* that works, the two methods give the same registers in either order and
\* each gives the same registers called twice as called once.
C31_OutputConfig ==
  /\ (call.op \in OutputOps /\ call.ret) =>
       /\ ModifiesMode2Bit
       /\ \A i \in 1..Len(call.log) :
            (IsXfer(call.log[i]) /\ call.log[i].reg # MODE2) =>
              /\ ~call.wasInit
              /\ call.log[i].k = "Write" /\ call.log[i].reg = MODE1
              /\ call.log[i].data = <<0>>
              /\ \A j \in 1..i : IsXfer(call.log[j]) => call.log[j].reg = MODE1
  /\ i2c_ = "bus" =>
       /\ \A b \in BOOLEAN, t \in BOOLEAN :
            /\ InvertThenDriver(b, t) = DriverThenInvert(b, t)
            /\ InvertThenDriver(b, t).ok
            /\ Bit(RegVal(InvertThenDriver(b, t).regs, MODE2), 4) = (IF b THEN 1 ELSE 0)
            /\ Bit(RegVal(InvertThenDriver(b, t).regs, MODE2), 2) = (IF t THEN 1 ELSE 0)
       /\ \A b \in BOOLEAN :
            /\ InvertTwice(b).ok /\ InvertTwice(b).once = InvertTwice(b).twice
            /\ DriverTwice(b).ok /\ DriverTwice(b).once = DriverTwice(b).twice

\* C31 witness: SetOutputInvert(false) on an initialized driver read MODE2
\* = 0x1F after a failed attempt and wrote 0x0F.
C31_Witness ==
  /\ call.op = "SetOutputInvert" /\ call.ret /\ call.wasInit /\ call.args = <<FALSE>>
  /\ \E i \in 1..Len(call.log) : call.log[i].k = "Read" /\ ~call.log[i].ok
  /\ OkXfers(call.log)[1].data = <<31>>
  /\ RegVal(regs, MODE2) = 15

----------------------------------------------------------------------------
(* Claims about the initialization state (Spec). *)

\* C32: a state-gated operation called with arguments inside their bounds
\* on an uninitialized driver whose transport works first performs Reset
\* (the readiness check, then the write of 0x00 to MODE1, each once), then
\* carries out its own register operations, returns true and leaves the
\* driver Initialized.  NotInitialized becomes the last error, or a new
\* flag, only in a state-gated call on an uninitialized driver whose
\* implicit Reset failed; that call returns false and leaves the driver
\* Uninitialized.
C32_LazyInit ==
  [][ Idle =>
        /\ ( /\ call'.op \in GatedOps /\ ~initialized_ /\ i2c_ = "bus"
             /\ call'.orc = AllOk /\ ~OutOfBoundsCall' ) =>
             LET L == call'.log IN
             /\ call'.ret /\ initialized_'
             /\ Len(L) > 3
             /\ L[1].k = "Ready" /\ L[1].ok
             /\ L[2].k = "Write" /\ L[2].ok /\ L[2].reg = MODE1 /\ L[2].data = <<0>>
             /\ L[3].k = "WriteDone" /\ L[3].ok
             /\ \E i \in 4..Len(L) : IsXfer(L[i])
             /\ \A i \in 4..Len(L) : L[i].k # "Ready" /\ L[i].opn > 1
             /\ ~(HasError(error_flags_', NotInitialized) /\ ~HasError(error_flags_, NotInitialized))
        /\ ( \/ HasError(error_flags_', NotInitialized) /\ ~HasError(error_flags_, NotInitialized)
             \/ last_error_' = NotInitialized /\ last_error_ # NotInitialized ) =>
             /\ call'.op \in GatedOps /\ ~initialized_
             /\ ~ResetOp(Ctx(call'.orc), Before).ok
             /\ call'.log = ResetOp(Ctx(call'.orc), Before).m.log
             /\ ~call'.ret /\ ~initialized_'
             /\ HasError(error_flags_', NotInitialized) /\ last_error_' = NotInitialized
    ]_vars

\* C32 witness: SetPwm on an uninitialized driver with a working transport
\* returned true: readiness check, reset write, then the channel's block
\* write; the driver is Initialized and NotInitialized is not set.
C32_Witness ==
  /\ call.op = "SetPwm" /\ ~call.wasInit /\ call.ret /\ initialized_
  /\ call.orc = AllOk
  /\ Len(call.log) >= 5
  /\ call.log[1].k = "Ready" /\ call.log[2].reg = MODE1 /\ call.log[2].data = <<0>>
  /\ call.log[4].k = "Write" /\ call.log[4].reg # MODE1 /\ Len(call.log[4].data) = 4
  /\ ~HasError(error_flags_, NotInitialized)

\* A Reset runs in the step: Reset() itself, or EnsureInitialized() or a
\* state-gated method on a driver that is not initialized.
ResetRuns ==
  \/ call'.op = "Reset"
  \/ call'.op \in GatedOps \cup {"EnsureInitialized"} /\ ~initialized_

\* C33: initialized_ is false until a Reset runs; a step in which a Reset
\* runs leaves it equal to that Reset's result; every other step leaves it
\* unchanged: a failed SetPwm, SetPwmFreq, Sleep, Wake, GetPrescale or
\* output-configuration call on an initialized driver, a rejected argument,
\* ClearError, ClearErrorFlags, SetRetries and SetRetryDelay.  An
\* initialized driver has seen the readiness check succeed.
C33_InitializedOnlyByReset ==
  /\ ~bus_ready /\ ~initialized_
  /\ [][ /\ Idle =>
              /\ ResetRuns => initialized_' = ResetOp(Ctx(call'.orc), Before).ok
              /\ (ResetRuns /\ i2c_ = "bus") =>
                   (call'.log # <<>> /\ call'.log[1].k = "Ready")
              /\ ~ResetRuns =>
                   /\ initialized_' = initialized_
                   /\ \A i \in 1..Len(call'.log) : call'.log[i].k # "Ready"
         /\ ~Idle => initialized_' = initialized_
         /\ initialized_' => bus_ready'
       ]_vars

\* C33 witness: Sleep failed on an initialized driver and the driver is
\* still initialized.
C33_Witness ==
  /\ call.op = "Sleep" /\ call.wasInit /\ ~call.ret /\ initialized_
  /\ error_flags_ # 0

----------------------------------------------------------------------------
(* Claim about the bytes Wake writes (SpecPower). *)

\* Wake read MODE1 with the RESTART bit set.
WakeReadRestart ==
  /\ call.op = "Wake"
  /\ \E i \in 1..Len(call.log) :
       /\ call.log[i].k = "Read" /\ call.log[i].ok
       /\ Bit(call.log[i].data[1], 7) = 1

\* C34: when the MODE1 byte Wake read has RESTART (0x80) set, every write
\* Wake attempts after the read, in the first and in the second register
\* operation, carries the same byte: RESTART as 1, SLEEP as 0 and every
\* other bit as read.  RESTART is never written as 0, and a Wake that
\* returned true completed both writes.
C34_WakeKeepsRestart ==
  WakeReadRestart =>
    LET L == FromMode1Read(call.log)
        v == L[1].data[1]
        W == SelectSeq(L, LAMBDA e : e.k = "Write")
    IN
    /\ \A i \in 1..Len(W) :
         /\ W[i].reg = MODE1 /\ Len(W[i].data) = 1
         /\ \A b \in 0..7 :
              Bit(W[i].data[1], b) = IF b = 4 THEN 0 ELSE Bit(v, b)
         /\ W[i].data = W[1].data
         /\ W[i].data[1] = v - 16 * Bit(v, 4)
    /\ call.ret =>
         /\ Cardinality({ W[i].opn : i \in { k \in 1..Len(W) : W[k].ok } }) = 2
         /\ Bit(RegVal(regs, MODE1), 7) = 1 /\ Bit(RegVal(regs, MODE1), 4) = 0

\* C34 witness: Wake read 0xB1 (RESTART and SLEEP set), wrote 0xA1 in two
\* register operations and returned true.
C34_Witness ==
  /\ WakeReadRestart /\ call.ret
  /\ FromMode1Read(call.log)[1].data = <<177>>
  /\ Len(SelectSeq(call.log, LAMBDA e : e.k = "Write" /\ e.ok /\ e.data = <<161>>)) = 2
  /\ RegVal(regs, MODE1) = 161

----------------------------------------------------------------------------
(* Claims about the error record (SpecInit, Spec, SpecRetry). *)

\* C35: ClearError and ClearErrorFlags change nothing but the flag mask, of
\* which they clear bits only: last error, initialization state, retry
\* count, delay callback and the chip stay as they were and no transport
\* call is made.
C35_ClearChangesFlagsOnly ==
  [][ (Idle /\ call'.op \in {"ClearError", "ClearErrorFlags"}) =>
        /\ last_error_' = last_error_
        /\ initialized_' = initialized_
        /\ retries_' = retries_
        /\ retry_delay_' = retry_delay_
        /\ regs' = regs /\ bus_ready' = bus_ready /\ i2c_' = i2c_
        /\ call'.log = <<>> /\ call'.ret
        /\ \A b \in FlagBits : Bit(error_flags_', b) <= Bit(error_flags_, b)
    ]_vars

\* C35 witness: ClearErrorFlags has cleared every flag and GetLastError()
\* still reports the error of the failed call before it (on a driver whose
\* retry count was changed and which is initialized).
C35_Witness ==
  /\ call.op = "ClearErrorFlags"
  /\ last_error_ # None /\ ~HasAnyError(error_flags_)
  /\ initialized_ /\ retries_ # DefaultRetries

\* C35, the converse state: after a failure followed by a success a flag is
\* still set while GetLastError() reports None.
C35_FlagsWithoutLastError ==
  /\ call.op \in GatedOps /\ call.ret
  /\ last_error_ = None /\ HasAnyError(error_flags_)

\* The error kinds the driver records.
RecordedKinds == {I2cWrite, I2cRead, NotInitialized, OutOfRange}

\* C36: in every reachable state each bit set in the flag mask is the bit of
\* I2cWrite, I2cRead, NotInitialized or OutOfRange, and the last error is
\* None or one of these four: InvalidParam and DeviceNotFound are never
\* recorded, as flag or as last error.
C36_RecordedKinds ==
  /\ \A b \in FlagBits : Bit(error_flags_, b) = 1 => 2 ^ b \in RecordedKinds
  /\ ~HasError(error_flags_, InvalidParam) /\ ~HasError(error_flags_, DeviceNotFound)
  /\ last_error_ \in {None} \cup RecordedKinds
  /\ \A i \in 1..Len(call.log) :
       IsDone(call.log[i]) => call.log[i].data[1] \in {None} \cup RecordedKinds

\* C36 witness: all four kinds are set at once, after a rejected argument,
\* the latest of the failures.
C36_Witness ==
  /\ \A e \in RecordedKinds : HasError(error_flags_, e)
  /\ last_error_ = OutOfRange /\ OutOfBoundsCall

\* The step sets the NotInitialized flag, or makes it the last error.
RaisesNotInitialized ==
  \/ HasError(error_flags_', NotInitialized) /\ ~HasError(error_flags_, NotInitialized)
  \/ last_error_' = NotInitialized /\ call'.op \in DriverOps /\ Idle

\* C37: without ClearError / ClearErrorFlags calls, NotInitialized set
\* implies I2cWrite set.  NotInitialized is recorded only by a state-gated
\* call on an uninitialized driver whose lazy Reset failed, and the state
\* that call leaves has I2cWrite set too; a direct Reset() that fails
\* records I2cWrite (flag and last error) and leaves the NotInitialized
\* flag as it was.
C37_NotInitializedWithI2cWrite ==
  /\ HasError(error_flags_, NotInitialized) => HasError(error_flags_, I2cWrite)
  /\ [][ /\ HasError(error_flags_', NotInitialized) => HasError(error_flags_', I2cWrite)
         /\ RaisesNotInitialized =>
              /\ call'.op \in GatedOps /\ ~initialized_ /\ ~call'.ret
              /\ ~ResetOp(Ctx(call'.orc), Before).ok
              /\ HasError(ResetOp(Ctx(call'.orc), Before).m.flags, I2cWrite)
              /\ HasError(error_flags_', I2cWrite)
         /\ (Idle /\ call'.op = "Reset" /\ ~call'.ret) =>
              /\ Raised(I2cWrite)
              /\ last_error_' # NotInitialized
       ]_vars

\* C37 witness: Sleep on an uninitialized, flag-free driver whose lazy
\* Reset passed the readiness check and failed at the MODE1 write left
\* exactly I2cWrite and NotInitialized.
C37_Witness ==
  /\ call.op = "Sleep" /\ ~call.wasInit /\ ~call.ret
  /\ error_flags_ = I2cWrite + NotInitialized /\ last_error_ = NotInitialized
  /\ call.log # <<>> /\ call.log[1].k = "Ready" /\ call.log[1].ok
  /\ \E i \in 1..Len(call.log) : call.log[i].k = "Write" /\ ~call.log[i].ok

----------------------------------------------------------------------------
(* Claims about a negative retry count and a null transport (SpecInit). *)

\* What a call made with a negative retry count did: no Read or Write, no
\* call of the delay callback, at most the readiness check of a Reset, and
\* every register operation it started returned false with I2cWrite (a
\* write) or I2cRead (a read) set at that moment.
NoAttemptsMade ==
  /\ \A i \in 1..Len(call.log) :
       /\ ~IsXfer(call.log[i]) /\ call.log[i].k # "Delay"
       /\ call.log[i].k = "Ready" => i = 1
       /\ IsDone(call.log[i]) =>
            /\ ~call.log[i].ok
            /\ call.log[i].data[1] = IF call.log[i].k = "WriteDone" THEN I2cWrite ELSE I2cRead
            /\ i = Len(call.log)
  /\ call.op = "Reset" => (~initialized_ /\ last_error_ = I2cWrite)

\* C38 as stated: with a negative retry count every operation fails.
C38_Original ==
  (call.op \in DriverOps /\ retries_ < 0) => (NoAttemptsMade /\ ~call.ret)

\* C38: with a negative retry count every register operation makes no Read
\* or Write attempt, never calls the delay callback, returns false and sets
\* I2cWrite (write) or I2cRead (read).  Reset and every gated method then
\* return false however healthy the transport is; only EnsureInitialized()
\* on a driver that is already initialized, which performs no register
\* operation, still returns true.  Once a non-negative count is set, calls
\* on a working transport succeed again.
C38_NegativeRetries ==
  /\ (call.op \in DriverOps /\ retries_ < 0) =>
       /\ NoAttemptsMade
       /\ call.ret <=> (call.op = "EnsureInitialized" /\ call.wasInit)
       /\ call.ret => call.log = <<>>
       /\ ~call.ret => last_error_ # None /\ HasAnyError(error_flags_)
  /\ ( /\ call.op \in DriverOps /\ retries_ >= 0 /\ i2c_ = "bus"
       /\ call.orc = AllOk /\ ~OutOfBoundsCall ) => call.ret

\* C38 witness: with retry count -1 and a transport that never fails, Sleep
\* on an initialized driver returned false with I2cRead and touched nothing.
C38_Witness ==
  /\ call.op = "Sleep" /\ call.wasInit /\ retries_ < 0 /\ call.orc = AllOk
  /\ ~call.ret /\ last_error_ = I2cRead
  /\ Len(call.log) = 1 /\ call.log[1].k = "ReadDone"

\* C39: a driver constructed with a null transport never uses it: every
\* call of a method leaves an empty log (no readiness check, Read, Write or
\* delay), returns false and sets I2cWrite; Reset() and EnsureInitialized()
\* leave I2cWrite as last error, every gated method sets NotInitialized too
\* and leaves it as last error; the driver is never initialized and the
\* chip is never changed.
C39_NullTransport ==
  i2c_ = "null" =>
    /\ ~initialized_ /\ ~bus_ready
    /\ regs = (MODE1 :> 17) @@ (MODE2 :> 4) @@ (PRE_SCALE :> 30)
    /\ call.log = <<>>
    /\ call.op \in DriverOps =>
         /\ ~call.ret
         /\ HasError(error_flags_, I2cWrite)
         /\ call.op \in {"Reset", "EnsureInitialized"} => last_error_ = I2cWrite
         /\ call.op \in GatedOps =>
              (HasError(error_flags_, NotInitialized) /\ last_error_ = NotInitialized)

\* C39 witness: on a null transport SetPwm with valid arguments returned false and left exactly I2cWrite and
\* NotInitialized.
C39_Witness ==
  /\ i2c_ = "null" /\ call.op = "SetPwm" /\ ~OutOfBoundsCall /\ ~call.ret
  /\ error_flags_ = I2cWrite + NotInitialized /\ last_error_ = NotInitialized
  /\ call.log = <<>> /\ ~initialized_

----------------------------------------------------------------------------
(* Claim about calls that are not serialized (SpecRace). *)

\* Threads s and t have both returned from their calls.
BothDone(s, t) == s # t /\ running[s].pc = "done" /\ running[t].pc = "done"

\* C40: when no call overlapped another (the caller serialized them), two
\* calls that both returned true have both taken effect: after
\* SetOutputInvert(b) and SetOutputDriverMode(d), in either order, MODE2 has
\* bit 0x10 as b says and bit 0x04 as d says; after Sleep() and
\* SetPwmFreq(f), in either order, MODE1 has SLEEP set and PRE_SCALE holds
\* calcPrescale(f).  A lost update needs overlapping calls.
C40_SerializedNoLostUpdate ==
  \A s \in Threads, t \in Threads :
    (BothDone(s, t) /\ ~running[s].overlap /\ ~running[t].overlap) =>
      /\ running[s].ret /\ running[t].ret
      /\ (running[s].op = "SetOutputInvert" /\ running[t].op = "SetOutputDriverMode") =>
           /\ Bit(RegVal(regs, MODE2), 4) = (IF running[s].args[1] THEN 1 ELSE 0)
           /\ Bit(RegVal(regs, MODE2), 2) = (IF running[t].args[1] THEN 1 ELSE 0)
      /\ (running[s].op = "Sleep" /\ running[t].op = "SetPwmFreq") =>
           /\ Bit(RegVal(regs, MODE1), 4) = 1
           /\ RegVal(regs, PRE_SCALE) = calcPrescale(running[t].args[1])

\* C40 witness: SetOutputInvert(true) and SetOutputDriverMode(false)
\* overlapped, both returned true, and MODE2 = 0x14 holds the inversion
\* only: the driver-mode bit is still set.
C40_Witness ==
  \E s \in Threads, t \in Threads :
    /\ BothDone(s, t) /\ running[s].overlap /\ running[t].overlap
    /\ running[s].ret /\ running[t].ret
    /\ running[s].op = "SetOutputInvert" /\ running[s].args = <<TRUE>>
    /\ running[t].op = "SetOutputDriverMode" /\ running[t].args = <<FALSE>>
    /\ RegVal(regs, MODE2) = 20

\* C40, the second pair: Sleep() and SetPwmFreq overlapped, both returned
\* true, and MODE1 is awake: SetPwmFreq restored the byte it had read.
C40_SleepLost ==
  \E s \in Threads, t \in Threads :
    /\ BothDone(s, t) /\ running[s].overlap /\ running[t].overlap
    /\ running[s].ret /\ running[t].ret
    /\ running[s].op = "Sleep" /\ running[t].op = "SetPwmFreq"
    /\ Bit(RegVal(regs, MODE1), 4) = 0
    /\ RegVal(regs, PRE_SCALE) = calcPrescale(running[t].args[1])

====
